---- MODULE Spec2Model ----
(***************************************************************************)
(* The exam-catalog normalisation scripts of EdLight-Academy:              *)
(*   scripts/fix_exam_structure.py  (classifier, deterministic repairer,   *)
(*                                   oracle adapter, plan applier, main)   *)
(*   scripts/format_exam_text.py    (text passes, periodic snapshot, main) *)
(*   scripts/fix_all_exams.py       (answer inference, main)               *)
(* Each script is a batch program over one corpus file.  The variable      *)
(* `script` says which program a behaviour runs.                           *)
(***************************************************************************)
EXTENDS Integers, Sequences, FiniteSets, TLC

(***************************************************************************)
(* Values.  A Python str is a TLA+ string; None is a reserved string that  *)
(* no corpus field holds.  An exam is [sections], a section is             *)
(* [section_title, instructions, questions]; a question of the structure   *)
(* script is an opaque object, named by a number.                          *)
(***************************************************************************)
None == "<None>"

\* Python truthiness of an optional str: neither None nor "".
Truthy(s) == s # None /\ s # ""

\* `x or ""` for an optional str.
OrEmpty(s) == IF s = None THEN "" ELSE s

Range(s) == {s[i] : i \in 1..Len(s)}

RECURSIVE SumSeq(_)
SumSeq(s) == IF s = <<>> THEN 0 ELSE Head(s) + SumSeq(Tail(s))

\* str.strip() on the titles of the corpus: the only titles that carry
\* surrounding blanks are the padded bare labels.
strip(t) ==
    CASE t = " I " -> "I"
      [] t = "A " -> "A"
      [] OTHER -> t

BARE_LABELS ==
    {"I", "II", "III", "IV", "V", "VI", "A", "B", "C", "D", "E", "F",
     "1", "2", "3", "4", "5", "6", "7", "8", "9", "10"}

\* fix_exam_structure.classify_exam: the set of issue tags of an exam.
classify_exam(exam) ==
    LET sections == exam.sections
        titles == SelectSeq([k \in 1..Len(sections) |-> sections[k].section_title], Truthy)
        bare == SelectSeq(titles, LAMBDA t : strip(t) \in BARE_LABELS)
    IN  (IF Len(sections) > 10 THEN {"too_many"} ELSE {})
        \cup (IF \E k \in 1..Len(sections) : sections[k].section_title = None
              THEN {"null_titles"} ELSE {})
        \cup (IF \E k \in 1..Len(sections) :
                    /\ Truthy(sections[k].section_title)
                    /\ Len(sections[k].section_title) > 80
              THEN {"long_titles"} ELSE {})
        \cup (IF Len(titles) # Cardinality(Range(titles))
              THEN {"duplicate_titles"} ELSE {})
        \cup (IF bare # <<>> THEN {"bare_labels"} ELSE {})
        \cup (IF \E k \in 1..Len(sections) : sections[k].questions = <<>>
              THEN {"empty_sections"} ELSE {})

\* fix_exam_structure.count_questions
count_questions(exam) ==
    SumSeq([k \in 1..Len(exam.sections) |-> Len(exam.sections[k].questions)])

(***************************************************************************)
(* simple_fix.  The loop body works on the copied section list in place:   *)
(* st.sections is that list (a dropped section writes into the section     *)
(* after it), st.fixed the list of survivors.  idx is Python's 0-based     *)
(* index.                                                                  *)
(***************************************************************************)
simple_fix_step_nocontinue(st, idx) ==
    LET sec == st.sections[idx + 1]
        title == sec.section_title
        titled == IF title = None
                  THEN [sec EXCEPT !.section_title = "Section " \o ToString(idx + 1)]
                  ELSE sec
        carried ==
            IF sec.questions = <<>> /\ Truthy(sec.instructions) /\ idx + 1 < Len(st.sections)
            THEN LET next_sec == st.sections[idx + 2]
                     existing == OrEmpty(next_sec.instructions)
                     preamble == sec.instructions
                     instr == IF existing # "" THEN preamble \o "\n\n" \o existing
                              ELSE preamble
                     ntitle == IF ~Truthy(next_sec.section_title) /\ Truthy(title)
                               THEN title ELSE next_sec.section_title
                 IN  [st.sections EXCEPT ![idx + 2] =
                         [next_sec EXCEPT !.instructions = instr, !.section_title = ntitle]]
            ELSE st.sections
    IN  [sections |-> [carried EXCEPT ![idx + 1] = titled],
         fixed |-> Append(st.fixed, titled)]

\* simple_fix without the test of line 91 on the next section's title.
simple_fix_step_title_always(st, idx) ==
    LET sec == st.sections[idx + 1]
        questions == sec.questions
        title == sec.section_title
    IN  IF questions = <<>>
        THEN IF Truthy(sec.instructions) /\ idx + 1 < Len(st.sections)
             THEN LET next_sec == st.sections[idx + 2]
                      existing == OrEmpty(next_sec.instructions)
                      preamble == sec.instructions
                      instr == IF existing # "" THEN preamble \o "\n\n" \o existing
                               ELSE preamble
                      ntitle == IF Truthy(title) THEN title ELSE next_sec.section_title
                  IN  [st EXCEPT !.sections[idx + 2] =
                          [next_sec EXCEPT !.instructions = instr, !.section_title = ntitle]]
             ELSE st
        ELSE LET titled == IF title = None
                           THEN [sec EXCEPT !.section_title = "Section " \o ToString(idx + 1)]
                           ELSE sec
             IN  [sections |-> [st.sections EXCEPT ![idx + 1] = titled],
                  fixed |-> Append(st.fixed, titled)]

\* simple_fix without lines 97-99: a kept section keeps the title it has.
simple_fix_step_keeps_title(st, idx) ==
    LET sec == st.sections[idx + 1]
        title == sec.section_title
    IN  IF sec.questions = <<>>
        THEN IF Truthy(sec.instructions) /\ idx + 1 < Len(st.sections)
             THEN LET next_sec == st.sections[idx + 2]
                      existing == OrEmpty(next_sec.instructions)
                      preamble == sec.instructions
                      instr == IF existing # "" THEN preamble \o "\n\n" \o existing
                               ELSE preamble
                      ntitle == IF ~Truthy(next_sec.section_title) /\ Truthy(title)
                                THEN title ELSE next_sec.section_title
                  IN  [st EXCEPT !.sections[idx + 2] =
                          [next_sec EXCEPT !.instructions = instr, !.section_title = ntitle]]
             ELSE st
        ELSE [sections |-> st.sections, fixed |-> Append(st.fixed, sec)]

\* simple_fix as it would be if a dropped last section handed its
\* instructions back to the last section kept so far.
simple_fix_step_hands_back(st, idx) ==
    LET sec == st.sections[idx + 1]
        title == sec.section_title
    IN  IF sec.questions = <<>>
        THEN IF Truthy(sec.instructions) /\ idx + 1 < Len(st.sections)
             THEN LET next_sec == st.sections[idx + 2]
                      existing == OrEmpty(next_sec.instructions)
                      preamble == sec.instructions
                      instr == IF existing # "" THEN preamble \o "\n\n" \o existing
                               ELSE preamble
                      ntitle == IF ~Truthy(next_sec.section_title) /\ Truthy(title)
                                THEN title ELSE next_sec.section_title
                  IN  [st EXCEPT !.sections[idx + 2] =
                          [next_sec EXCEPT !.instructions = instr, !.section_title = ntitle]]
             ELSE IF Truthy(sec.instructions) /\ st.fixed # <<>>
             THEN [st EXCEPT !.fixed[Len(st.fixed)].instructions =
                      IF Truthy(@) THEN @ \o "\n\n" \o sec.instructions
                      ELSE sec.instructions]
             ELSE st
        ELSE LET titled == IF title = None
                           THEN [sec EXCEPT !.section_title = "Section " \o ToString(idx + 1)]
                           ELSE sec
             IN  [sections |-> [st.sections EXCEPT ![idx + 1] = titled],
                  fixed |-> Append(st.fixed, titled)]

simple_fix_step(st, idx) ==
    LET sec == st.sections[idx + 1]
        questions == sec.questions
        title == sec.section_title
    IN  IF questions = <<>>
        THEN IF Truthy(sec.instructions) /\ idx + 1 < Len(st.sections)
             THEN LET next_sec == st.sections[idx + 2]
                      existing == OrEmpty(next_sec.instructions)
                      preamble == sec.instructions
                      instr == IF existing # "" THEN preamble \o "\n\n" \o existing
                               ELSE preamble
                      ntitle == IF ~Truthy(next_sec.section_title) /\ Truthy(title)
                                THEN title ELSE next_sec.section_title
                  IN  [st EXCEPT !.sections[idx + 2] =
                          [next_sec EXCEPT !.instructions = instr, !.section_title = ntitle]]
             ELSE st
        ELSE LET titled == IF title = None
                           THEN [sec EXCEPT !.section_title = "Section " \o ToString(idx + 1)]
                           ELSE sec
             IN  [sections |-> [st.sections EXCEPT ![idx + 1] = titled],
                  fixed |-> Append(st.fixed, titled)]

RECURSIVE simple_fix_loop(_, _)
simple_fix_loop(st, idx) ==
    IF idx >= Len(st.sections) THEN st
    ELSE simple_fix_loop(simple_fix_step(st, idx), idx + 1)

\* The section lists simple_fix ends with: `fixed` is the returned exam's
\* sections, `sections` the list it looped over.
simple_fix_run(exam) == simple_fix_loop([sections |-> exam.sections, fixed |-> <<>>], 0)

simple_fix(exam) == [exam EXCEPT !.sections = simple_fix_run(exam).fixed]

(***************************************************************************)
(* apply_gemini_plan.  A plan is [has_section_plan, section_plan]; an      *)
(* entry is [original_indices, new_title, new_instructions,                *)
(* merge_strategy].  original_sections[idx] is Python indexing: a negative *)
(* idx counts from the end and IndexError is raised below -len.            *)
(***************************************************************************)
IndexError(original_sections, idx) == idx < 0 - Len(original_sections)

PyIndex(original_sections, idx) ==
    IF idx >= 0 THEN original_sections[idx + 1]
    ELSE original_sections[Len(original_sections) + idx + 1]

\* Lines 239-250: fold the referenced sections into the last output section.
RECURSIVE merge_into_previous(_, _, _)
merge_into_previous(original_sections, last, indices) ==
    IF indices = <<>> THEN last
    ELSE LET idx == Head(indices)
         IN  IF idx < Len(original_sections)
             THEN LET orig == PyIndex(original_sections, idx)
                      existing == OrEmpty(last.instructions)
                      instr == IF Truthy(orig.instructions)
                               THEN IF existing # ""
                                    THEN existing \o "\n\n" \o orig.instructions
                                    ELSE orig.instructions
                               ELSE last.instructions
                  IN  merge_into_previous(original_sections,
                         [last EXCEPT !.questions = @ \o orig.questions,
                                      !.instructions = instr],
                         Tail(indices))
             ELSE merge_into_previous(original_sections, last, Tail(indices))

\* Lines 257-263: all_questions and combined_instructions of one entry.
RECURSIVE collect(_, _, _)
collect(original_sections, acc, indices) ==
    IF indices = <<>> THEN acc
    ELSE LET idx == Head(indices)
         IN  IF idx < Len(original_sections)
             THEN LET orig == PyIndex(original_sections, idx)
                  IN  collect(original_sections,
                         [all_questions |-> acc.all_questions \o orig.questions,
                          combined_instructions |->
                              IF Truthy(orig.instructions)
                              THEN Append(acc.combined_instructions, orig.instructions)
                              ELSE acc.combined_instructions],
                         Tail(indices))
             ELSE collect(original_sections, acc, Tail(indices))

\* "\n\n".join(parts)
RECURSIVE join(_)
join(parts) ==
    IF parts = <<>> THEN ""
    ELSE IF Len(parts) = 1 THEN parts[1]
    ELSE parts[1] \o "\n\n" \o join(Tail(parts))

\* apply_entry as it would be if lines 266-271 let the sections' own
\* instructions replace new_instructions instead of following them.
apply_entry_drops_new_instructions(original_sections, new_sections, entry) ==
    LET indices == entry.original_indices
    IN  IF entry.merge_strategy = "merge_into_previous" /\ new_sections # <<>>
        THEN [new_sections EXCEPT ![Len(new_sections)] =
                 merge_into_previous(original_sections, @, indices)]
        ELSE LET got == collect(original_sections,
                            [all_questions |-> <<>>, combined_instructions |-> <<>>],
                            indices)
                 final_instructions ==
                     IF got.combined_instructions # <<>>
                     THEN join(got.combined_instructions)
                     ELSE entry.new_instructions
             IN  Append(new_sections,
                    [section_title |-> entry.new_title,
                     instructions |-> final_instructions,
                     questions |-> got.all_questions])

\* Lines 231-279: one plan entry applied to the output built so far.
apply_entry(original_sections, new_sections, entry) ==
    LET indices == entry.original_indices
    IN  IF entry.merge_strategy = "merge_into_previous" /\ new_sections # <<>>
        THEN [new_sections EXCEPT ![Len(new_sections)] =
                 merge_into_previous(original_sections, @, indices)]
        ELSE LET got == collect(original_sections,
                            [all_questions |-> <<>>, combined_instructions |-> <<>>],
                            indices)
                 orig_inst == join(got.combined_instructions)
                 final_instructions ==
                     IF got.combined_instructions # <<>>
                     THEN IF Truthy(entry.new_instructions)
                          THEN entry.new_instructions \o "\n\n" \o orig_inst
                          ELSE orig_inst
                     ELSE entry.new_instructions
             IN  Append(new_sections,
                    [section_title |-> entry.new_title,
                     instructions |-> final_instructions,
                     questions |-> got.all_questions])

RECURSIVE apply_entries(_, _, _)
apply_entries(original_sections, new_sections, section_plan) ==
    IF section_plan = <<>> THEN new_sections
    ELSE apply_entries(original_sections,
            apply_entry(original_sections, new_sections, Head(section_plan)),
            Tail(section_plan))

\* An index of the plan makes original_sections[idx] raise.
plan_raises(exam, plan) ==
    \E e \in 1..Len(plan.section_plan) :
        \E j \in 1..Len(plan.section_plan[e].original_indices) :
            IndexError(exam.sections, plan.section_plan[e].original_indices[j])

\* apply_gemini_plan(exam, plan), when it returns.
apply_gemini_plan(exam, plan) ==
    LET section_plan == IF plan.has_section_plan THEN plan.section_plan ELSE <<>>
    IN  IF section_plan = <<>> THEN exam
        ELSE [exam EXCEPT !.sections = apply_entries(exam.sections, <<>>, section_plan)]

\* The caller's exam object after apply_gemini_plan(exam, plan) has run.
\* Line 222 rebinds `exam` to copy.deepcopy(exam) and every later write goes
\* to the copy (line 281 among them), as in simple_fix (line 69): the
\* caller's object is left as it was.  Without the copy line 281 would
\* rebind the caller's own sections.
apply_gemini_plan_arg_aliased(exam, plan) == apply_gemini_plan(exam, plan)

apply_gemini_plan_arg(exam, plan) == exam

\* main line 384: the gate on the question count.
count_changed_loss_only(new_q, n_q) == new_q < n_q

count_changed(new_q, n_q) == new_q # n_q

(***************************************************************************)
(* The inputs the model is checked on.                                     *)
(***************************************************************************)
\* Exams in a corpus, sections in a corpus, questions in a section.
NExams == 2
MaxCorpusSections == 2
MaxQ == 1
\* Over a run, the entries of the plans the oracle answers and the section
\* indices those entries list.
MaxEntries == 2
MaxRefs == 2
\* Over a run of format_exam_text, the reformatted texts the oracle returns.
MaxReformats == 1

Titles == {None, "I"}
Instrs == {None, "Lisez."}

SeqsUpTo(S, n) == UNION {[1..m -> S] : m \in 0..n}

\* The questions of section k of exam e: distinct objects, numbered.
QuestionsOf(e, k, n) == [j \in 1..n |-> 100 * e + 10 * k + j]

SectionShapes == [section_title : Titles, instructions : Instrs, n : 0..MaxQ]

MakeExam(e, shapes) ==
    [sections |-> [k \in 1..Len(shapes) |->
        [section_title |-> shapes[k].section_title,
         instructions |-> shapes[k].instructions,
         questions |-> QuestionsOf(e, k, shapes[k].n)]]]

\* Every corpus of at most NExams exams, each with a section, holding at
\* most MaxCorpusSections sections between them.
Corpora ==
    LET ShapeLists == SeqsUpTo(SectionShapes, MaxCorpusSections) \ {<<>>}
        Shaped == {c \in SeqsUpTo(ShapeLists, NExams) :
                      SumSeq([e \in 1..Len(c) |-> Len(c[e])]) <= MaxCorpusSections}
    IN  {[e \in 1..Len(c) |-> MakeExam(e, c[e])] : c \in Shaped}

Strategies == {"keep", "merge_into_previous", "rename_only"}

\* The plans an oracle may answer for an exam of n sections: an index is one
\* of 0..n-1, n (one past the end) or -2 (Python counts it from the end, and
\* raises IndexError when the exam has a single section).
Indices(n) == {0 - 2} \cup 0..n

Entries(n, left) ==
    [original_indices : SeqsUpTo(Indices(n), left.refs),
     new_title : {"Partie"},
     new_instructions : {None, "Note."},
     merge_strategy : Strategies]

PlanRefs(sp) == SumSeq([e \in 1..Len(sp) |-> Len(sp[e].original_indices)])

\* left = [entries, refs]: what the run's bounds still allow.
Plans(n, left) ==
    {sp \in SeqsUpTo(Entries(n, left), left.entries) : PlanRefs(sp) <= left.refs}

NoDoc == [json |-> "invalid", analysis |-> None, has_section_plan |-> FALSE,
          section_plan |-> <<>>]

\* The JSON documents of a response: an object carrying a section_plan, an
\* object without one, an object whose analysis is null, and an array.
\* Plans, tabulated once.
PlanTable ==
    [n \in 0..MaxCorpusSections, e \in 0..MaxEntries, r \in 0..MaxRefs |->
        Plans(n, [entries |-> e, refs |-> r])]

Docs(n, left) ==
    [json : {"object"}, analysis : {"Merged."}, has_section_plan : {TRUE},
     section_plan : IF n <= MaxCorpusSections
                    THEN PlanTable[n, left.entries, left.refs]
                    ELSE Plans(n, left)]
    \cup {[NoDoc EXCEPT !.json = "object", !.analysis = "Merged."],
          [NoDoc EXCEPT !.json = "object"],
          [NoDoc EXCEPT !.json = "array"]}

\* The texts of a response: "", prose, a JSON document, and a document (or
\* a brace block that is no JSON) inside a Markdown code fence.
Texts(n, left) ==
    {[kind |-> "empty", doc |-> NoDoc], [kind |-> "prose", doc |-> NoDoc],
     [kind |-> "fenced", doc |-> NoDoc]}
    \cup [kind : {"json", "fenced"}, doc : Docs(n, left)]

(***************************************************************************)
(* State.                                                                  *)
(*   script        the program that runs                                   *)
(*   pc            its position                                            *)
(*   catalog_file  the corpus file on disk, backup_file its backup         *)
(*   exams         the corpus in memory                                    *)
(* fix_exam_structure.main:                                                *)
(*   simple_indices, gemini_indices, ok_indices   the routing (0-based)    *)
(*   batch_num, n_questions, gemini_success, gemini_fail   its locals      *)
(*   attempt       call_gemini's loop variable                             *)
(*   call_result   how call_gemini ended: "text" (it returned the text of  *)
(*                 a response), "none" (it returned None), "raised"        *)
(*   plan          the parsed response                                     *)
(* History, written but never read by the program:                         *)
(*   exams0        the corpus file when the run started                    *)
(*   writes        writes to the corpus file so far                        *)
(*   requests      requests of the current call_gemini, last_resp the      *)
(*                 last one's outcome                                      *)
(*   stored        per routed exam, what Phase 2 stored                    *)
(*   slept         the inter-call sleep ran since the last request         *)
(*   oracle_left   [entries, refs, texts]: what MaxEntries, MaxRefs and    *)
(*                 MaxReformats still allow the oracle's answers           *)
(* format_exam_text.main:                                                  *)
(*   args          the command line: [gemini, dry_run, limit]              *)
(*   GEMINI_API_KEY  the key found at start-up, or None                    *)
(*   targets, idx  pass2_gemini's target list (pairs <<exam, section>>,    *)
(*                 0-based) and loop index; gemini_success and gemini_fail *)
(*                 are its success and fail                                *)
(*   stats         the counters a pass reports                             *)
(* fix_all_exams.main:                                                     *)
(*   total_questions, total_fixed   its counters                           *)
(***************************************************************************)
VARIABLES script, pc, catalog_file, backup_file, exams, exams0, writes,
          simple_indices, gemini_indices, ok_indices, batch_num, n_questions,
          gemini_success, gemini_fail, attempt, call_result, plan,
          requests, last_resp, stored, slept, oracle_left,
          args, GEMINI_API_KEY, targets, idx, stats,
          total_questions, total_fixed

vars == <<script, pc, catalog_file, backup_file, exams, exams0, writes,
          simple_indices, gemini_indices, ok_indices, batch_num, n_questions,
          gemini_success, gemini_fail, attempt, call_result, plan,
          requests, last_resp, stored, slept, oracle_left,
          args, GEMINI_API_KEY, targets, idx, stats,
          total_questions, total_fixed>>

\* What fix_exam_structure has no use for.
elsewhere == <<args, GEMINI_API_KEY, targets, idx, stats, total_questions, total_fixed>>

files == <<catalog_file, backup_file, writes>>
routing == <<simple_indices, gemini_indices, ok_indices>>
counters == <<gemini_success, gemini_fail>>
call_state == <<attempt, call_result, requests, last_resp>>
history == <<exams0, oracle_left>>

\* call_gemini's default max_retries.
max_retries == 3

NoBackup == [exists |-> FALSE, doc |-> <<>>]

\* The backup an earlier run left holds some other document.
StaleBackup == [exists |-> TRUE, doc |-> <<MakeExam(9, <<>>)>>]

NoCall == "pending"

NoArgs == [gemini |-> FALSE, dry_run |-> FALSE, limit |-> 0]
NoStats == [dedup |-> 0, directive_sep |-> 0, label_strip |-> 0, gemini_targets |-> 0]

InitLocals ==
    /\ simple_indices = <<>> /\ gemini_indices = <<>> /\ ok_indices = <<>>
    /\ batch_num = 0 /\ n_questions = 0
    /\ gemini_success = 0 /\ gemini_fail = 0
    /\ attempt = 0 /\ call_result = NoCall /\ plan = NoDoc
    /\ requests = 0 /\ last_resp = "none"
    /\ stored = <<>> /\ slept = FALSE
    /\ oracle_left = [entries |-> MaxEntries, refs |-> MaxRefs, texts |-> MaxReformats]
    /\ args = NoArgs /\ GEMINI_API_KEY = None
    /\ targets = <<>> /\ idx = 0 /\ stats = NoStats
    /\ total_questions = 0 /\ total_fixed = 0

InitStructure ==
    /\ script = "fix_exam_structure"
    /\ pc = "load"
    /\ catalog_file \in Corpora
    /\ backup_file = StaleBackup
    /\ exams = <<>>
    /\ exams0 = catalog_file
    /\ writes = 0
    /\ InitLocals

\* The indices i (0-based, ascending) of the exams that satisfy Test.
IndicesWhere(doc, Test(_)) ==
    LET all == [k \in 1..Len(doc) |-> k - 1]
    IN  SelectSeq(all, LAMBDA i : Test(doc[i + 1]))

GEMINI_ISSUES == {"too_many", "duplicate_titles", "bare_labels", "long_titles"}

\* The branches of lines 311 and 313 tested in the other order.
route_simple_first(exam) ==
    LET issues == classify_exam(exam)
    IN  IF issues = {} THEN "ok"
        ELSE IF issues \cap {"null_titles", "empty_sections"} # {} THEN "simple"
        ELSE "gemini"

\* main lines 309-314: the branch an exam takes.
route(exam) ==
    LET issues == classify_exam(exam)
    IN  IF issues = {} THEN "ok"
        ELSE IF issues \cap GEMINI_ISSUES # {} THEN "gemini"
        ELSE "simple"

\* main lines 296-318: read the corpus and classify every exam.
Load ==
    /\ script = "fix_exam_structure" /\ pc = "load"
    /\ exams' = catalog_file
    /\ ok_indices' = IndicesWhere(catalog_file, LAMBDA e : route(e) = "ok")
    /\ gemini_indices' = IndicesWhere(catalog_file, LAMBDA e : route(e) = "gemini")
    /\ simple_indices' = IndicesWhere(catalog_file, LAMBDA e : route(e) = "simple")
    /\ stored' = [k \in 1..Len(catalog_file) |-> "none"]
    /\ pc' = "phase1"
    /\ UNCHANGED <<script, elsewhere, files, history, batch_num, n_questions, counters,
                   call_state, plan, slept>>

\* main lines 320-330: simple_fix on every exam routed "simple".
Phase1 ==
    /\ script = "fix_exam_structure" /\ pc = "phase1"
    /\ exams' = [k \in 1..Len(exams) |->
                    IF (k - 1) \in Range(simple_indices)
                    THEN simple_fix(exams[k]) ELSE exams[k]]
    /\ pc' = "phase2"
    /\ UNCHANGED <<script, elsewhere, files, history, routing, batch_num, n_questions,
                   counters, call_state, plan, stored, slept>>

\* The exam the Phase 2 loop is at: i = gemini_indices[batch_num].
CurIndex == gemini_indices[batch_num + 1]
CurExam == exams[CurIndex + 1]

\* main lines 338-349, up to the call: the next routed exam.
BeginExam ==
    /\ script = "fix_exam_structure" /\ pc = "phase2"
    /\ batch_num < Len(gemini_indices)
    /\ n_questions' = count_questions(CurExam)
    /\ attempt' = 0 /\ requests' = 0 /\ last_resp' = "none"
    /\ call_result' = NoCall
    /\ plan' = NoDoc
    /\ pc' = "call_gemini"
    /\ UNCHANGED <<script, elsewhere, files, exams, history, routing, batch_num, counters,
                   stored, slept>>

(***************************************************************************)
(* call_gemini (lines 106-137).  One iteration of its loop issues one      *)
(* request.  resp is what the request came to: "rate_limited" (status      *)
(* 429), "error" (anything the try block raises) or "ok" (a text was       *)
(* extracted).  The result says how the iteration ends: "continue" into    *)
(* the next one, or the call's outcome, "text", "none" (the loop ran out   *)
(* and the call returned None) or "raised".                                *)
(***************************************************************************)
call_gemini_iteration_retry_all(att, resp) ==
    CASE resp = "ok" -> [attempt |-> att, ret |-> "text"]
      [] resp = "rate_limited" ->
            [attempt |-> att + 1,
             ret |-> IF att + 1 < max_retries THEN "continue" ELSE "none"]
      [] resp = "error" ->
            [attempt |-> att + 1,
             ret |-> IF att + 1 < max_retries THEN "continue" ELSE "none"]

call_gemini_iteration(att, resp) ==
    CASE resp = "ok" -> [attempt |-> att, ret |-> "text"]
      [] resp = "rate_limited" ->
            [attempt |-> att + 1,
             ret |-> IF att + 1 < max_retries THEN "continue" ELSE "none"]
      [] resp = "error" ->
            IF att < max_retries - 1
            THEN [attempt |-> att + 1, ret |-> "continue"]
            ELSE [attempt |-> att, ret |-> "raised"]

Responses == {"ok", "rate_limited", "error"}

call_gemini ==
    /\ script = "fix_exam_structure" /\ pc = "call_gemini"
    /\ attempt < max_retries
    /\ \E resp \in Responses :
            LET it == call_gemini_iteration(attempt, resp)
            IN  /\ attempt' = it.attempt
                /\ requests' = requests + 1
                /\ last_resp' = resp
                /\ call_result' = IF it.ret = "continue" THEN NoCall ELSE it.ret
                /\ pc' = IF it.ret = "continue" THEN "call_gemini" ELSE "returned"
    /\ slept' = FALSE
    /\ UNCHANGED <<script, elsewhere, files, exams, history, routing, batch_num, n_questions,
                   counters, plan, stored>>

(***************************************************************************)
(* The rest of the loop body of Phase 2 (lines 351-399).  The text of a    *)
(* successful call is read where the body first looks at it: each action   *)
(* below draws response_text from the texts an oracle may answer.          *)
(***************************************************************************)
\* Lines 359-365: json.loads(response_text) succeeds, or the fence pattern
\* matches; response_text.doc is then what json.loads is handed.
Parsable(response_text) == response_text.kind \in {"json", "fenced"}

\* What raises inside the try block once a text is in hand: json.loads on
\* the fenced block, plan.get on a document that is no object, analysis[:100]
\* on a null analysis, original_sections[idx] in apply_gemini_plan.
Raises(exam, doc) ==
    \/ doc.json = "invalid"
    \/ doc.json = "array"
    \/ doc.analysis = None
    \/ plan_raises(exam, doc)

StoreAt(i, exam) == [exams EXCEPT ![i + 1] = exam]
MarkAt(i, how) == [stored EXCEPT ![i + 1] = how]

\* Line 349: call_gemini returns (or raises) into main's try block; its own
\* locals are gone.
CallReturns ==
    /\ script = "fix_exam_structure" /\ pc = "returned"
    /\ attempt' = 0 /\ requests' = 0 /\ last_resp' = "none"
    /\ pc' = "response"
    /\ UNCHANGED <<script, elsewhere, files, exams, history, routing, batch_num, n_questions,
                   counters, call_result, plan, stored, slept>>

\* Lines 351-356: `not response_text`, for None and for ""; fall back and
\* `continue`.
EmptyResponse ==
    /\ script = "fix_exam_structure" /\ pc = "response"
    /\ call_result \in {"none", "text"}
    /\ gemini_fail' = gemini_fail + 1
    /\ exams' = StoreAt(CurIndex, simple_fix(CurExam))
    /\ stored' = MarkAt(CurIndex, "simple_fix")
    /\ batch_num' = batch_num + 1
    /\ pc' = "phase2"
    /\ UNCHANGED <<script, elsewhere, files, history, routing, n_questions, gemini_success,
                   call_state, plan, slept>>

\* Lines 359-370: neither JSON nor a fenced block; fall back and `continue`.
ParseFailure ==
    /\ script = "fix_exam_structure" /\ pc = "response"
    /\ call_result = "text"
    /\ ~ \A response_text \in Texts(Len(CurExam.sections), oracle_left) :
            response_text.kind = "empty" \/ Parsable(response_text)
    /\ gemini_fail' = gemini_fail + 1
    /\ exams' = StoreAt(CurIndex, simple_fix(CurExam))
    /\ stored' = MarkAt(CurIndex, "simple_fix")
    /\ batch_num' = batch_num + 1
    /\ pc' = "phase2"
    /\ UNCHANGED <<script, elsewhere, files, history, routing, n_questions, gemini_success,
                   call_state, plan, slept>>

\* Lines 372-390: apply the plan and gate the result on the question count.
ApplyPlan ==
    /\ script = "fix_exam_structure" /\ pc = "response"
    /\ call_result = "text"
    /\ \E response_text \in Texts(Len(CurExam.sections), oracle_left) :
          /\ Parsable(response_text)
          /\ ~Raises(CurExam, response_text.doc)
          /\ LET exam == CurExam
                 restructured == apply_gemini_plan(exam, response_text.doc)
                 exam_after == apply_gemini_plan_arg(exam, response_text.doc)
                 new_q == count_questions(restructured)
             IN  IF count_changed(new_q, n_questions)
                 THEN /\ exams' = StoreAt(CurIndex, simple_fix(exam_after))
                      /\ stored' = MarkAt(CurIndex, "simple_fix")
                      /\ UNCHANGED gemini_success
                 ELSE /\ exams' = StoreAt(CurIndex, restructured)
                      /\ stored' = MarkAt(CurIndex, "restructured")
                      /\ gemini_success' = gemini_success + 1
          /\ plan' = response_text.doc
          /\ oracle_left' =
                [oracle_left EXCEPT
                    !.entries = @ - Len(response_text.doc.section_plan),
                    !.refs = @ - PlanRefs(response_text.doc.section_plan)]
    /\ pc' = "rate_limit"
    /\ UNCHANGED <<script, elsewhere, files, exams0, routing, batch_num, n_questions,
                   gemini_fail, call_state, slept>>

\* Lines 392-395: the handler of everything the try block raises.
ExceptionPath_propagates ==
    /\ script = "fix_exam_structure" /\ pc = "response"
    /\ call_result = "raised"
    /\ pc' = "aborted"
    /\ UNCHANGED <<script, elsewhere, files, exams, history, routing, batch_num, n_questions,
                   counters, call_state, plan, stored, slept>>

ExceptionPath ==
    /\ script = "fix_exam_structure" /\ pc = "response"
    /\ IF call_result = "text"
       THEN ~ \A response_text \in Texts(Len(CurExam.sections), oracle_left) :
                  ~(Parsable(response_text) /\ Raises(CurExam, response_text.doc))
       ELSE call_result = "raised"
    /\ gemini_fail' = gemini_fail + 1
    /\ exams' = StoreAt(CurIndex, simple_fix(CurExam))
    /\ stored' = MarkAt(CurIndex, "simple_fix")
    /\ pc' = "rate_limit"
    /\ UNCHANGED <<script, elsewhere, files, history, routing, batch_num, n_questions,
                   gemini_success, call_state, plan, slept>>

\* Lines 397-399, and the loop's step to the next exam.  The plan is dead
\* from here on.
RateLimit ==
    /\ script = "fix_exam_structure" /\ pc = "rate_limit"
    /\ slept' = IF batch_num < Len(gemini_indices) - 1 THEN TRUE ELSE slept
    /\ batch_num' = batch_num + 1
    /\ plan' = NoDoc
    /\ pc' = "phase2"
    /\ UNCHANGED <<script, elsewhere, files, exams, history, routing, n_questions, counters,
                   call_state, stored>>

\* Lines 401-425: the loop is over; the reports of Phase 2 and Phase 3.
FinishPhase2 ==
    /\ script = "fix_exam_structure" /\ pc = "phase2"
    /\ batch_num >= Len(gemini_indices)
    /\ pc' = "backup"
    /\ UNCHANGED <<script, elsewhere, files, exams, history, routing, batch_num, n_questions,
                   counters, call_state, plan, stored, slept>>

\* Lines 430-434: shutil.copy2 of the corpus file, which exists (it was read).
BackupStructure ==
    /\ script = "fix_exam_structure" /\ pc = "backup"
    /\ backup_file' = [exists |-> TRUE, doc |-> catalog_file]
    /\ pc' = "save"
    /\ UNCHANGED <<script, elsewhere, catalog_file, writes, exams, history, routing, batch_num,
                   n_questions, counters, call_state, plan, stored, slept>>

\* Lines 436-441: write the corpus.
SaveStructure ==
    /\ script = "fix_exam_structure" /\ pc = "save"
    /\ catalog_file' = exams
    /\ writes' = writes + 1
    /\ pc' = "done"
    /\ UNCHANGED <<script, elsewhere, backup_file, exams, history, routing, batch_num,
                   n_questions, counters, call_state, plan, stored, slept>>

NextStructure ==
    \/ Load
    \/ Phase1
    \/ BeginExam
    \/ call_gemini
    \/ CallReturns
    \/ EmptyResponse
    \/ ParseFailure
    \/ ApplyPlan
    \/ ExceptionPath
    \/ RateLimit
    \/ FinishPhase2
    \/ BackupStructure
    \/ SaveStructure

SpecStructure == InitStructure /\ [][NextStructure]_vars

(***************************************************************************)
(* Properties of fix_exam_structure.main.                                  *)
(***************************************************************************)
\* Exam k (1-based) was routed to the oracle.
Routed(k) == (k - 1) \in Range(gemini_indices)

\* The exam the current iteration was given and the plan it applied.
Cur == CurIndex + 1
PlanApplied == pc = "rate_limit" /\ plan.json = "object"

RECURSIVE Flatten(_)
Flatten(sections) ==
    IF sections = <<>> THEN <<>> ELSE Head(sections).questions \o Flatten(Tail(sections))

Occurrences(q, qs) == Cardinality({j \in 1..Len(qs) : qs[j] = q})

\* Every section index of 0..n-1 is listed by exactly one entry of the plan,
\* and no entry lists anything else.
EntriesListing(sp, i) == {e \in 1..Len(sp) : i \in Range(sp[e].original_indices)}
ValidPlan(n, sp) ==
    /\ \A i \in 0..(n - 1) : Cardinality(EntriesListing(sp, i)) = 1
    /\ \A e \in 1..Len(sp) : Range(sp[e].original_indices) \subseteq 0..(n - 1)

\* C1: whatever the oracle answered, the exam Phase 2 stores for a routed exam
\* has the question count the exam had before: the result of the plan is
\* stored only when its count equals the count before, simple_fix(original)
\* otherwise.
C1_QuestionCountKept ==
    \A k \in 1..Len(stored) :
        (Routed(k) /\ stored[k] # "none") =>
            /\ count_questions(exams[k]) = count_questions(exams0[k])
            /\ stored[k] = "simple_fix" => exams[k] = simple_fix(exams0[k])
            /\ (stored[k] = "restructured" /\ PlanApplied /\ k = Cur) =>
                  exams[k] = apply_gemini_plan(exams0[k], plan)

\* The gate has rejected a plan whose result had another question count.
C1_Witness ==
    /\ PlanApplied
    /\ stored[Cur] = "simple_fix"
    /\ count_questions(apply_gemini_plan(exams0[Cur], plan)) # count_questions(exams0[Cur])

\* C2: when a plan is accepted, every question of the original exam is in the
\* restructured exam exactly once.
C2_EveryQuestionOnce ==
    \A k \in 1..Len(stored) :
        (Routed(k) /\ stored[k] = "restructured") =>
            \A q \in Range(Flatten(exams0[k].sections)) :
                Occurrences(q, Flatten(exams[k].sections)) = 1

\* C3: a plan that misses a section index, lists one in two entries or lists
\* one out of range is not applied: the exam falls back to simple_fix.
C3_InvalidPlanRejected ==
    (/\ PlanApplied
     /\ plan.section_plan # <<>>
     /\ ~ValidPlan(Len(exams0[Cur].sections), plan.section_plan))
        => stored[Cur] = "simple_fix"

\* C4: a response that parses but carries no section_plan, or an empty one,
\* is a validation failure: the exam falls back to simple_fix and is not
\* counted a success.
C4_ShapelessPlanRejected ==
    (/\ PlanApplied
     /\ (~plan.has_section_plan \/ plan.section_plan = <<>>))
        => stored[Cur] = "simple_fix"

\* C5: on every rejection path of Phase 2 the exam stored is simple_fix of
\* the exam as it was before the oracle round-trip: the rejected plan leaves
\* nothing behind.
C5_FallbackOnOriginal ==
    \A k \in 1..Len(stored) :
        (Routed(k) /\ stored[k] = "simple_fix") => exams[k] = simple_fix(exams0[k])

\* A plan was rejected whose result, repaired, is not the repaired original.
C5_Witness ==
    /\ PlanApplied
    /\ stored[Cur] = "simple_fix"
    /\ simple_fix(apply_gemini_plan(exams0[Cur], plan)) # simple_fix(exams0[Cur])

\* Exam k ended in one of the two outcomes.
Outcome(k) ==
    \/ stored[k] = "restructured"
    \/ stored[k] = "simple_fix" /\ exams[k] = simple_fix(exams0[k])

\* The iterations of the Phase 2 loop that have stored their exam.
Completed == IF pc = "rate_limit" THEN batch_num + 1 ELSE batch_num

\* What is left of the run, as a number every step lowers: the exams still
\* to process, then the position inside the iteration, then the requests
\* call_gemini may still issue.
StepsLeft ==
    CASE pc = "load" -> 10 * Len(catalog_file) + 14
      [] pc = "phase1" -> 10 * Len(exams) + 13
      [] pc = "phase2" -> 10 * (Len(gemini_indices) - batch_num) + 12
      [] pc = "call_gemini" -> 10 * (Len(gemini_indices) - batch_num) + 11 - attempt
      [] pc = "returned" -> 10 * (Len(gemini_indices) - batch_num) + 5
      [] pc = "response" -> 10 * (Len(gemini_indices) - batch_num) + 4
      [] pc = "rate_limit" -> 10 * (Len(gemini_indices) - batch_num) + 3
      [] pc = "backup" -> 2
      [] pc = "save" -> 1
      [] OTHER -> 0

\* C7: every routed exam is eventually processed and ends as an accepted
\* restructuring or as simple_fix(original), whatever the oracle did for an
\* earlier exam.  Stated on finite runs: the run is never stuck before its
\* end, every step brings the end nearer, the loop stores an outcome for
\* each routed exam in turn, and it is left only when all have one.
C7_EveryRoutedExamProcessed ==
    /\ [](pc = "done" \/ ENABLED NextStructure)
    /\ [][StepsLeft' < StepsLeft]_vars
    /\ [](\A j \in 1..Len(gemini_indices) :
            IF j <= Completed THEN Outcome(gemini_indices[j] + 1)
            ELSE stored[gemini_indices[j] + 1] = "none")
    /\ [](pc \in {"backup", "save", "done"} => batch_num = Len(gemini_indices))

\* The run ended with a second routed exam restructured after the first one's
\* call had failed.
C7_Witness ==
    /\ pc = "done"
    /\ Len(gemini_indices) = 2
    /\ stored[gemini_indices[1] + 1] = "simple_fix"
    /\ stored[gemini_indices[2] + 1] = "restructured"
    /\ gemini_fail = 1

\* C8: call_gemini issues at most max_retries requests; it returns at the
\* first successful response; it returns None only with the budget used up
\* and the last request rate-limited, and raises only with the budget used
\* up and the last request raising.
C8_CallGeminiBudget ==
    /\ requests <= max_retries
    /\ pc = "call_gemini" => (requests = attempt /\ attempt < max_retries /\ last_resp # "ok")
    /\ pc = "returned" =>
          /\ call_result \in {"text", "none", "raised"}
          /\ call_result = "text" <=> last_resp = "ok"
          /\ call_result = "none" => (requests = max_retries /\ last_resp = "rate_limited")
          /\ call_result = "raised" => (requests = max_retries /\ last_resp = "error")

\* The call raised on its last request, after two that were retried.
C8_Witness ==
    pc = "returned" /\ call_result = "raised" /\ requests = max_retries

\* C9: the inter-call sleep has run between the last request for one exam
\* and the first request for the next.
C9_SleepBetweenExams ==
    (pc = "call_gemini" /\ requests = 0 /\ batch_num > 0) => slept

\* The routed exams that ended in the given outcome.
RoutedAs(how) == {k \in 1..Len(stored) : Routed(k) /\ stored[k] = how}

\* C29: when Phase 2 has ended, gemini_fail is the number of routed exams
\* that fell back to simple_fix, gemini_success the number whose
\* restructured result was stored, and the two add up to the number of
\* routed exams.
C29_CountersAccount ==
    (script = "fix_exam_structure" /\ pc \in {"backup", "save", "done"}) =>
        /\ gemini_fail = Cardinality(RoutedAs("simple_fix"))
        /\ gemini_success = Cardinality(RoutedAs("restructured"))
        /\ gemini_success + gemini_fail = Len(gemini_indices)

(***************************************************************************)
(* fix_exam_structure on corpora that carry every tag of classify_exam:    *)
(* exams of one or two sections with null, empty, plain, padded bare and   *)
(* over-long titles, with and without questions, and exams of ten and of   *)
(* eleven sections.                                                        *)
(***************************************************************************)
\* The sections of the largest exam, and what the oracle's plans may hold
\* over a run (entries, and indices listed).
ManySections == 11
MaxRoutingRefs == 1

LongTitle ==
    "Partie premiere : comprehension de texte, vocabulaire, grammaire et production ecrite"

SectionNames ==
    <<"Partie 1", "Partie 2", "Partie 3", "Partie 4", "Partie 5", "Partie 6",
      "Partie 7", "Partie 8", "Partie 9", "Partie 10", "Partie 11", "Partie 12">>

RoutingShapes ==
    [section_title : {None, "", "Lecture", " I ", LongTitle}, instructions : {None},
     n : 0..MaxQ]

LargeShapes(n) ==
    [k \in 1..n |-> [section_title |-> SectionNames[k], instructions |-> None, n |-> 1]]

RoutingShapeLists ==
    (SeqsUpTo(RoutingShapes, 2) \ {<<>>})
    \cup {LargeShapes(ManySections - 1), LargeShapes(ManySections)}

\* The exams put in front of another one: one of each branch.
FirstShapeLists ==
    {<<[section_title |-> "Lecture", instructions |-> None, n |-> 1]>>,
     <<[section_title |-> None, instructions |-> None, n |-> 1]>>,
     <<[section_title |-> " I ", instructions |-> None, n |-> 0]>>}

RoutingCorpora ==
    {<<MakeExam(1, shapes)>> : shapes \in RoutingShapeLists}
    \cup {<<MakeExam(1, first), MakeExam(2, shapes)>> :
            first \in FirstShapeLists, shapes \in RoutingShapeLists}

InitRouting ==
    /\ script = "fix_exam_structure"
    /\ pc = "load"
    /\ catalog_file \in RoutingCorpora
    /\ backup_file = StaleBackup
    /\ exams = <<>>
    /\ exams0 = catalog_file
    /\ writes = 0
    /\ simple_indices = <<>> /\ gemini_indices = <<>> /\ ok_indices = <<>>
    /\ batch_num = 0 /\ n_questions = 0
    /\ gemini_success = 0 /\ gemini_fail = 0
    /\ attempt = 0 /\ call_result = NoCall /\ plan = NoDoc
    /\ requests = 0 /\ last_resp = "none"
    /\ stored = <<>> /\ slept = FALSE
    /\ oracle_left = [entries |-> MaxRoutingRefs, refs |-> MaxRoutingRefs, texts |-> 0]
    /\ args = NoArgs /\ GEMINI_API_KEY = None
    /\ targets = <<>> /\ idx = 0 /\ stats = NoStats
    /\ total_questions = 0 /\ total_fixed = 0

SpecRouting == InitRouting /\ [][NextStructure]_vars

\* How often the 0-based index i is listed in a routing list.
Listed(i, indices) == Occurrences(i, indices)

\* C19: routing is a partition decided by the tags of classify_exam: every
\* exam is in exactly one of ok, simple and needs-oracle, once; ok exactly
\* when it has no tag, needs-oracle exactly when it has one of too_many,
\* duplicate_titles, bare_labels, long_titles, simple exactly when it has
\* tags and only null_titles or empty_sections; an exam in ok is never
\* modified, in memory or in the file the run writes.
C19_RoutingPartition ==
    pc # "load" =>
        \A k \in 1..Len(exams0) :
            LET tags == classify_exam(exams0[k])
                i == k - 1
            IN  /\ Listed(i, ok_indices) + Listed(i, simple_indices)
                      + Listed(i, gemini_indices) = 1
                /\ Listed(i, ok_indices) = 1 <=> tags = {}
                /\ Listed(i, gemini_indices) = 1 <=>
                      tags \cap {"too_many", "duplicate_titles", "bare_labels",
                                 "long_titles"} # {}
                /\ Listed(i, simple_indices) = 1 <=>
                      (tags # {} /\ tags \subseteq {"null_titles", "empty_sections"})
                /\ Listed(i, ok_indices) = 1 =>
                      /\ exams[k] = exams0[k]
                      /\ stored[k] = "none"
                      /\ pc = "done" => catalog_file[k] = exams0[k]

\* A run ended on an exam without a tag followed by an exam sent to the
\* oracle for its bare label, which also had a null title and a section
\* without questions.
C19_Witness ==
    /\ pc = "done"
    /\ ok_indices = <<0>> /\ gemini_indices = <<1>> /\ simple_indices = <<>>
    /\ classify_exam(exams0[2]) = {"bare_labels", "null_titles", "empty_sections"}
    /\ exams[1] = exams0[1] /\ exams[2] # exams0[2]

(***************************************************************************)
(* apply_gemini_plan on its own: an exam of up to three sections, each     *)
(* with or without instructions of its own, and a plan of up to two        *)
(* entries, or of one entry that lists every section in order.             *)
(***************************************************************************)
MaxPlanSections == 3
MaxPlanRefs == 2

SectionInstrs == <<"Lisez.", "Notez.", "Traduisez.", "Repondez.">>

\* Exams of n sections: of any shape up to two sections, with a question in
\* every section beyond.
PlanExams(n) ==
    {MakeExam(1, [k \in 1..n |->
                    [section_title |-> SectionNames[k],
                     instructions |-> IF k \in with THEN SectionInstrs[k] ELSE None,
                     n |-> IF n > 2 \/ k \in full THEN 1 ELSE 0]]) :
        with \in SUBSET (1..n), full \in SUBSET (1..n)}

AllInOrder(n) == [k \in 1..n |-> k - 1]

PlanPool(n) ==
    Plans(n, [entries |-> 2, refs |-> MaxPlanRefs])
    \cup {<<[original_indices |-> AllInOrder(n), new_title |-> "Partie",
             new_instructions |-> ni, merge_strategy |-> st]>> :
            ni \in {None, "Note."}, st \in Strategies}

InitApplyPlan ==
    /\ script = "apply_gemini_plan"
    /\ pc = "plan"
    /\ catalog_file = <<>>
    /\ backup_file = NoBackup
    /\ \E n \in 1..MaxPlanSections :
          /\ exams0 \in {<<e>> : e \in PlanExams(n)}
          /\ plan \in [json : {"object"}, analysis : {"Merged."}, has_section_plan : {TRUE},
                       section_plan : PlanPool(n)]
    /\ exams = exams0
    /\ writes = 0
    /\ simple_indices = <<>> /\ gemini_indices = <<>> /\ ok_indices = <<>>
    /\ batch_num = 0 /\ n_questions = 0
    /\ gemini_success = 0 /\ gemini_fail = 0
    /\ attempt = 0 /\ call_result = NoCall
    /\ requests = 0 /\ last_resp = "none"
    /\ stored = <<>> /\ slept = FALSE
    /\ oracle_left = [entries |-> 0, refs |-> 0, texts |-> 0]
    /\ args = NoArgs /\ GEMINI_API_KEY = None
    /\ targets = <<>> /\ idx = 0 /\ stats = NoStats
    /\ total_questions = 0 /\ total_fixed = 0

\* apply_gemini_plan(exam, plan) returns.
ApplyPlanCall ==
    /\ script = "apply_gemini_plan" /\ pc = "plan"
    /\ ~plan_raises(exams[1], plan)
    /\ exams' = <<apply_gemini_plan(exams[1], plan)>>
    /\ pc' = "applied"
    /\ UNCHANGED <<script, elsewhere, files, history, routing, batch_num, n_questions,
                   counters, call_state, plan, stored, slept>>

\* original_sections[idx] raises IndexError: nothing is returned.
ApplyPlanRaises ==
    /\ script = "apply_gemini_plan" /\ pc = "plan"
    /\ plan_raises(exams[1], plan)
    /\ pc' = "raised"
    /\ UNCHANGED <<script, elsewhere, files, exams, history, routing, batch_num, n_questions,
                   counters, call_state, plan, stored, slept>>

NextApplyPlan ==
    \/ ApplyPlanCall
    \/ ApplyPlanRaises

SpecApplyPlan == InitApplyPlan /\ [][NextApplyPlan]_vars

\* The entries of a plan that are not merge_into_previous.
OwnSection(sp) == {e \in 1..Len(sp) : sp[e].merge_strategy # "merge_into_previous"}

\* C21: a merge_into_previous entry never creates an output section, also
\* when it is the first entry of the plan: the output has as many sections as
\* the plan has entries of another strategy.
C21_MergeAddsNoSection ==
    (script = "apply_gemini_plan" /\ pc = "applied" /\ plan.section_plan # <<>>) =>
        Len(exams[1].sections) = Cardinality(OwnSection(plan.section_plan))

\* The output section a keep or rename_only entry e made, when no later
\* entry was folded into it: every entry but a merge_into_previous one that
\* has a section before it adds one section to the output.
OutputOf(sp, e) ==
    Cardinality({j \in 1..e : j = 1 \/ sp[j].merge_strategy # "merge_into_previous"})

Untouched(sp, e) ==
    /\ sp[e].merge_strategy # "merge_into_previous"
    /\ e = Len(sp) \/ sp[e + 1].merge_strategy # "merge_into_previous"

\* The sections of the exam an entry lists, in listed order, when every
\* index it lists is one of the exam's.
Listable(exam, entry) ==
    \A j \in 1..Len(entry.original_indices) :
        entry.original_indices[j] \in 0..(Len(exam.sections) - 1)

ListedSections(exam, entry) ==
    [j \in 1..Len(entry.original_indices) |-> exam.sections[entry.original_indices[j] + 1]]

RECURSIVE QuestionsInOrder(_)
QuestionsInOrder(secs) ==
    IF secs = <<>> THEN <<>> ELSE Head(secs).questions \o QuestionsInOrder(Tail(secs))

RECURSIVE InstructionsInOrder(_)
InstructionsInOrder(secs) ==
    IF secs = <<>> THEN <<>>
    ELSE (IF Truthy(Head(secs).instructions) THEN <<Head(secs).instructions>> ELSE <<>>)
         \o InstructionsInOrder(Tail(secs))

\* C22: a keep or rename_only entry makes exactly one output section: its
\* questions are the listed sections' questions in listed order, its title is
\* new_title, its instructions are new_instructions (if any) followed by the
\* listed sections' instructions in listed order, joined by blank lines; one
\* keep entry that lists every section gives one section with the exam's
\* total question count.
C22_KeepEntryOutput ==
    (script = "apply_gemini_plan" /\ pc = "applied" /\ plan.section_plan # <<>>) =>
        LET sp == plan.section_plan
            exam == exams0[1]
        IN  /\ (\A e \in 1..Len(sp) : sp[e].merge_strategy # "merge_into_previous")
                   => Len(exams[1].sections) = Len(sp)
            /\ \A e \in 1..Len(sp) :
                  (Untouched(sp, e) /\ Listable(exam, sp[e])) =>
                      LET out == exams[1].sections[OutputOf(sp, e)]
                          listed == ListedSections(exam, sp[e])
                          parts == (IF Truthy(sp[e].new_instructions)
                                    THEN <<sp[e].new_instructions>> ELSE <<>>)
                                   \o InstructionsInOrder(listed)
                      IN  /\ out.questions = QuestionsInOrder(listed)
                          /\ out.section_title = sp[e].new_title
                          /\ IF parts = <<>> THEN ~Truthy(out.instructions)
                             ELSE out.instructions = join(parts)
            /\ (Len(sp) = 1 /\ sp[1].merge_strategy = "keep"
                  /\ sp[1].original_indices = AllInOrder(Len(exam.sections)))
                   => /\ Len(exams[1].sections) = 1
                      /\ count_questions(exams[1]) = count_questions(exam)

\* One keep entry with instructions of its own gathers three sections, two
\* of which have instructions.
C22_Witness ==
    /\ script = "apply_gemini_plan" /\ pc = "applied"
    /\ Len(exams0[1].sections) = 3
    /\ Len(plan.section_plan) = 1
    /\ plan.section_plan[1].merge_strategy = "keep"
    /\ plan.section_plan[1].original_indices = <<0, 1, 2>>
    /\ Truthy(plan.section_plan[1].new_instructions)
    /\ Cardinality({k \in 1..3 : Truthy(exams0[1].sections[k].instructions)}) >= 2
    /\ count_questions(exams[1]) = 3

(***************************************************************************)
(* simple_fix on its own: one exam drawn from every mix of zero-question   *)
(* sections, null, empty and non-empty titles, present and absent          *)
(* instructions; simple_fix is applied to it, then to its own result.      *)
(***************************************************************************)
MaxFixSections == 3

FixTitles == {None, "", "Lecture"}

FixShapes == [section_title : FixTitles, instructions : Instrs, n : 0..MaxQ]

FixExams == {MakeExam(1, shapes) : shapes \in SeqsUpTo(FixShapes, MaxFixSections)}

InitSimpleFix ==
    /\ script = "simple_fix"
    /\ pc = "input"
    /\ catalog_file = <<>>
    /\ backup_file = NoBackup
    /\ exams0 \in {<<e>> : e \in FixExams}
    /\ exams = exams0
    /\ writes = 0
    /\ InitLocals

SimpleFixOnce ==
    /\ script = "simple_fix" /\ pc = "input"
    /\ exams' = <<simple_fix(exams[1])>>
    /\ pc' = "once"
    /\ UNCHANGED <<script, elsewhere, files, history, routing, batch_num, n_questions,
                   counters, call_state, plan, stored, slept>>

SimpleFixAgain ==
    /\ script = "simple_fix" /\ pc = "once"
    /\ exams' = <<simple_fix(exams[1])>>
    /\ pc' = "twice"
    /\ UNCHANGED <<script, elsewhere, files, history, routing, batch_num, n_questions,
                   counters, call_state, plan, stored, slept>>

NextSimpleFix ==
    \/ SimpleFixOnce
    \/ SimpleFixAgain

SpecSimpleFix == InitSimpleFix /\ [][NextSimpleFix]_vars

\* C6: simple_fix is idempotent: applied to its own result it returns that
\* result, for every exam.
C6_SimpleFixIdempotent ==
    /\ pc = "once" => simple_fix(exams[1]) = exams[1]
    /\ pc = "twice" => exams[1] = simple_fix(exams0[1])

\* simple_fix ran twice on an exam whose zero-question section carried its
\* instructions and its title into an untitled section, ahead of a section
\* that took a positional placeholder.
C6_Witness ==
    /\ pc = "twice"
    /\ Len(exams0[1].sections) = 3
    /\ exams0[1].sections[1].questions = <<>>
    /\ exams0[1].sections[1].instructions = "Lisez."
    /\ exams0[1].sections[1].section_title = "Lecture"
    /\ exams0[1].sections[2].section_title = ""
    /\ exams0[1].sections[2].instructions = "Lisez."
    /\ exams0[1].sections[3].section_title = None
    /\ Len(exams[1].sections) = 2
    /\ exams[1].sections[1].section_title = "Lecture"
    /\ exams[1].sections[1].instructions = "Lisez.\n\nLisez."
    /\ exams[1].sections[2].section_title = "Section 3"

(***************************************************************************)
(* simple_fix on exams whose sections differ in title and in instructions, *)
(* so that what a dropped section hands on can be told from what the next  *)
(* section had.                                                            *)
(***************************************************************************)
MaxMergeSections == 3

MergeShapes ==
    [section_title : {None, "", "Lecture", "Texte"},
     instructions : {None, "", "Lisez.", "Notez."},
     n : 0..MaxQ]

MergeExams == {MakeExam(1, shapes) : shapes \in SeqsUpTo(MergeShapes, MaxMergeSections)}

InitSimpleFixMerge ==
    /\ script = "simple_fix"
    /\ pc = "input"
    /\ catalog_file = <<>>
    /\ backup_file = NoBackup
    /\ exams0 \in {<<e>> : e \in MergeExams}
    /\ exams = exams0
    /\ writes = 0
    /\ InitLocals

SpecSimpleFixMerge == InitSimpleFixMerge /\ [][NextSimpleFix]_vars

\* What section k of the list holds when simple_fix comes to it: its own
\* instructions, behind those a dropped section just before it handed on.
RECURSIVE HandedInstructions(_, _)
HandedInstructions(secs, k) ==
    LET own == secs[k].instructions
        before == HandedInstructions(secs, k - 1)
    IN  IF k > 1 /\ secs[k - 1].questions = <<>> /\ Truthy(before)
        THEN IF Truthy(own) THEN before \o "\n\n" \o own ELSE before
        ELSE own

\* Its title then: its own, or when it has none the title of a dropped
\* section just before it that handed instructions on.
RECURSIVE HandedTitle(_, _)
HandedTitle(secs, k) ==
    LET own == secs[k].section_title
    IN  IF /\ k > 1 /\ secs[k - 1].questions = <<>>
           /\ Truthy(HandedInstructions(secs, k - 1))
           /\ ~Truthy(own) /\ Truthy(HandedTitle(secs, k - 1))
        THEN HandedTitle(secs, k - 1)
        ELSE own

\* The positions of the sections that have a question, in order.
Kept(secs) == SelectSeq([k \in 1..Len(secs) |-> k], LAMBDA k : secs[k].questions # <<>>)

\* C20: simple_fix drops every section without a question and keeps the
\* others in their order with their questions; a dropped section with
\* instructions hands them to the section after it, which then has them, a
\* blank line and its own instructions (or just them when it had none), and
\* hands its title only to a section that has none; a kept section left
\* without a title is named by its position.
C20_SimpleFixMerges ==
    pc = "once" =>
        LET secs == exams0[1].sections
            fixed == exams[1].sections
            kept == Kept(secs)
        IN  /\ Len(fixed) = Len(kept)
            /\ \A n \in 1..Len(kept) :
                  LET k == kept[n]
                      title == HandedTitle(secs, k)
                  IN  /\ fixed[n].questions = secs[k].questions
                      /\ fixed[n].instructions = HandedInstructions(secs, k)
                      /\ fixed[n].section_title =
                            IF title = None THEN "Section " \o ToString(k) ELSE title
                      /\ Truthy(secs[k].section_title) =>
                            fixed[n].section_title = secs[k].section_title

\* Two dropped sections in a row handed their instructions, and the first
\* its title, to a third section that had instructions and no title.
C20_Witness ==
    /\ pc = "once"
    /\ Len(exams0[1].sections) = 3
    /\ exams0[1].sections[1].questions = <<>>
    /\ exams0[1].sections[2].questions = <<>>
    /\ exams0[1].sections[1].section_title = "Lecture"
    /\ exams0[1].sections[2].section_title = ""
    /\ exams0[1].sections[3].section_title = None
    /\ Len(exams[1].sections) = 1
    /\ exams[1].sections[1].instructions = "Lisez.\n\nNotez.\n\nLisez."
    /\ exams[1].sections[1].section_title = "Lecture"

\* C28: every section of what simple_fix returns has a question and a
\* title that is not null, so that classify_exam reports neither
\* empty_sections nor null_titles on it.
C28_SimpleFixClearsTags ==
    (script = "simple_fix" /\ pc \in {"once", "twice"}) =>
        /\ \A n \in 1..Len(exams[1].sections) :
              /\ exams[1].sections[n].questions # <<>>
              /\ exams[1].sections[n].section_title # None
        /\ classify_exam(exams[1]) \cap {"empty_sections", "null_titles"} = {}

\* The exam had both tags: a section without a question, and a section
\* with a question and no title, which is now named by its position.
C28_Witness ==
    /\ script = "simple_fix" /\ pc = "once"
    /\ {"empty_sections", "null_titles"} \subseteq classify_exam(exams0[1])
    /\ Len(exams0[1].sections) = 3
    /\ exams0[1].sections[2].questions = <<>>
    /\ exams0[1].sections[3].questions # <<>>
    /\ exams0[1].sections[3].section_title = None
    /\ exams0[1].sections[2].instructions = None
    /\ Len(exams[1].sections) = 2
    /\ exams[1].sections[2].section_title = "Section 3"

\* The instructions a section of the result can have that hold the text t.
InstructionTexts == {"Lisez.", "Notez."}
WithText(t) ==
    {join(parts) : parts \in {ps \in SeqsUpTo(InstructionTexts, MaxMergeSections) :
                                 t \in Range(ps)}}

\* C30: a last section with no question and with instructions is dropped
\* and hands nothing on: the result is what simple_fix returns without that
\* section, and a title or instructions that only that section had are in
\* no section of the result.
C30_LastSectionCarriesNothing ==
    (/\ script = "simple_fix" /\ pc = "once"
     /\ exams0[1].sections # <<>>
     /\ exams0[1].sections[Len(exams0[1].sections)].questions = <<>>
     /\ Truthy(exams0[1].sections[Len(exams0[1].sections)].instructions))
        => LET secs == exams0[1].sections
               last == secs[Len(secs)]
               others == SubSeq(secs, 1, Len(secs) - 1)
               fixed == exams[1].sections
           IN  /\ exams[1] = simple_fix([exams0[1] EXCEPT !.sections = others])
               /\ Len(fixed) = Len(Kept(others))
               /\ (Truthy(last.section_title)
                     /\ \A k \in 1..Len(others) : others[k].section_title # last.section_title)
                    => \A n \in 1..Len(fixed) : fixed[n].section_title # last.section_title
               /\ (\A k \in 1..Len(others) : others[k].instructions # last.instructions)
                    => \A n \in 1..Len(fixed) :
                          fixed[n].instructions \notin WithText(last.instructions)

\* The last of three sections has no question, a title and instructions of
\* its own; the section before it is kept as it was.
C30_Witness ==
    /\ script = "simple_fix" /\ pc = "once"
    /\ Len(exams0[1].sections) = 3
    /\ exams0[1].sections[3].questions = <<>>
    /\ exams0[1].sections[3].instructions = "Notez."
    /\ exams0[1].sections[3].section_title = "Texte"
    /\ exams0[1].sections[2].questions # <<>>
    /\ exams0[1].sections[2].instructions = "Lisez."
    /\ exams0[1].sections[2].section_title = None
    /\ exams0[1].sections[1].questions # <<>>
    /\ Len(exams[1].sections) = 2
    /\ exams[1].sections[2].instructions = "Lisez."
    /\ exams[1].sections[2].section_title = "Section 2"

(***************************************************************************)
(* format_exam_text.  A text is the list of its lines, text.split("\n"):   *)
(* "" is <<"">>, and an absent or null field is NoText.  A line is a       *)
(* string; what the code asks of a line's characters is tabulated for the  *)
(* lines of the pool.                                                      *)
(***************************************************************************)
NoText == <<>>
EmptyText == <<"">>

TextOrEmpty(text) == IF text = NoText THEN EmptyText ELSE text
TextTruthy(text) == text # NoText /\ text # EmptyText

RECURSIVE Repeat(_, _)
Repeat(s, n) == IF n = 0 THEN "" ELSE s \o Repeat(s, n - 1)

Directive == "Lisez le texte. (40%)"
Label == "A. Fill in the blanks. (10 pts)"
Passage == Repeat("Il etait une fois ", 25) \o "un roi."

\* str.rstrip, str.lstrip and str.strip of a line.
rstrip(line) ==
    CASE line = "  " -> ""
      [] line = "Texte " -> "Texte"
      [] line = " Texte" -> " Texte"
      [] OTHER -> line

lstrip(line) ==
    CASE line = "  " -> ""
      [] line = " Texte" -> "Texte"
      [] line = "Texte " -> "Texte "
      [] OTHER -> line

line_strip(line) == lstrip(rstrip(line))

\* _DIRECTIVE_RE on one line: 15 to 120 characters, a parenthesised mark,
\* optional trailing blanks.  A label line has that shape too.
IsDirective(line) == line \in {Directive, Label}

\* _LABEL_PREFIX_RE on the first line: an optional letter, a verb of the
\* list, 5 to 80 characters, a parenthesised mark.
IsLabel(line) == line = Label

\* len(text): the characters of the lines and the newlines between them.
text_len(text) == SumSeq([i \in 1..Len(text) |-> Len(text[i])]) + Len(text) - 1

non_blank(text) == {i \in 1..Len(text) : line_strip(text[i]) # ""}

Min(S) == CHOOSE i \in S : \A j \in S : i <= j
Max(S) == CHOOSE i \in S : \A j \in S : j <= i

RemoveAt(text, i) == SubSeq(text, 1, i - 1) \o SubSeq(text, i + 1, Len(text))

\* str.strip of a whole text: blank lines go at both ends, the first line
\* left loses its leading blanks, the last its trailing blanks.
text_strip(text) ==
    IF non_blank(text) = {} THEN EmptyText
    ELSE LET a == Min(non_blank(text))
             b == Max(non_blank(text))
         IN  [i \in 1..(b - a + 1) |->
                 LET line == text[a + i - 1]
                 IN  IF a = b THEN line_strip(line)
                     ELSE IF i = 1 THEN lstrip(line)
                     ELSE IF i = b - a + 1 THEN rstrip(line)
                     ELSE line]

dedup_first_line(text) ==
    IF Cardinality(non_blank(text)) >= 2
    THEN LET i0 == Min(non_blank(text))
             i1 == Min(non_blank(text) \ {i0})
         IN  IF line_strip(text[i0]) = line_strip(text[i1])
             THEN RemoveAt(text, i0) ELSE text
    ELSE text

\* The match is the first directive line; its \s* runs over the blank lines
\* after it and gives back the last newline before the next line with text,
\* so `after` is that newline and the rest; with nothing but blanks after
\* the line `after` is empty and the text is returned as it is.
separate_directive(text) ==
    LET matches == {i \in 1..Len(text) : IsDirective(text[i])}
    IN  IF matches = {} THEN text
        ELSE LET m == Min(matches)
                 rest == {j \in non_blank(text) : j > m}
             IN  IF rest = {} THEN text
                 ELSE SubSeq(text, 1, m - 1) \o <<rstrip(text[m]), "">>
                          \o SubSeq(text, Min(rest), Len(text))

\* A blank line that follows a blank line goes (three newlines or more
\* become two); the strip at the end takes the blank lines of both ends.
RECURSIVE collapse_blank_runs(_)
collapse_blank_runs(text) ==
    IF Len(text) < 2 THEN text
    ELSE IF text[1] = "" /\ text[2] = "" THEN collapse_blank_runs(Tail(text))
    ELSE <<text[1]>> \o collapse_blank_runs(Tail(text))

normalise_whitespace(text) ==
    text_strip(collapse_blank_runs([i \in 1..Len(text) |-> rstrip(text[i])]))

\* The label line goes with the blank lines after it, up to the last newline
\* of that run; a label with no newline after it does not match.
strip_embedded_label(question_text) ==
    IF Len(question_text) >= 2 /\ IsLabel(question_text[1])
    THEN LET later == {k \in non_blank(question_text) : k >= 2} \cup {Len(question_text)}
         IN  SubSeq(question_text, Min(later), Len(question_text))
    ELSE question_text

pass1_cleaned(sec) ==
    normalise_whitespace(separate_directive(dedup_first_line(TextOrEmpty(sec.instructions))))

\* Line 118: instr != original.strip()
pass1_rewrites(sec) == pass1_cleaned(sec) # text_strip(TextOrEmpty(sec.instructions))

pass1_instructions(sec) ==
    IF pass1_rewrites(sec) THEN pass1_cleaned(sec) ELSE sec.instructions

\* Line 128: cleaned != qt
pass1_strips(q) == strip_embedded_label(TextOrEmpty(q.question)) # TextOrEmpty(q.question)

pass1_question(q) ==
    IF pass1_strips(q)
    THEN [q EXCEPT !.question = text_strip(strip_embedded_label(TextOrEmpty(q.question)))]
    ELSE q

pass1_section(sec) ==
    [sec EXCEPT !.instructions = pass1_instructions(sec),
                !.questions = [j \in 1..Len(sec.questions) |-> pass1_question(sec.questions[j])]]

\* The corpus after pass1.
pass1(doc) ==
    [e \in 1..Len(doc) |->
        [doc[e] EXCEPT !.sections =
            [k \in 1..Len(doc[e].sections) |-> pass1_section(doc[e].sections[k])]]]

\* The sections of the corpus, as pairs <<exam, section>>, in order.
RECURSIVE SectionPairs(_, _, _)
SectionPairs(doc, e, k) ==
    IF e > Len(doc) THEN <<>>
    ELSE IF k > Len(doc[e].sections) THEN SectionPairs(doc, e + 1, 1)
    ELSE <<<<e, k>>>> \o SectionPairs(doc, e, k + 1)

Count(doc, Test(_)) ==
    LET pairs == SectionPairs(doc, 1, 1)
    IN  Cardinality({n \in 1..Len(pairs) : Test(doc[pairs[n][1]].sections[pairs[n][2]])})

\* The counters pass1 returns.
pass1_stats(doc) ==
    LET original(sec) == TextOrEmpty(sec.instructions)
        pairs == SectionPairs(doc, 1, 1)
    IN  [dedup |-> Count(doc, LAMBDA sec :
                      pass1_rewrites(sec) /\ dedup_first_line(original(sec)) # original(sec)),
         directive_sep |-> Count(doc, LAMBDA sec :
                      pass1_rewrites(sec) /\ separate_directive(original(sec)) # original(sec)),
         label_strip |-> SumSeq([n \in 1..Len(pairs) |->
                      LET sec == doc[pairs[n][1]].sections[pairs[n][2]]
                      IN  Cardinality({j \in 1..Len(sec.questions) :
                              pass1_strips(sec.questions[j])})]),
         gemini_targets |-> 0]

\* Program constants of format_exam_text: call_gemini's default retries, the
\* length over which instructions are a pass 2 target, and the number of
\* items between two snapshots.
retries == 3
long_instructions == 400
save_every == 20

\* Sections with instructions over the length, in a corpus of the run.
MaxTargets == 21
MaxFormatSections == 2

LongText == <<Directive, Passage>>

FormatInstrs ==
    {NoText, <<"Texte">>, <<Directive, Directive, "Texte">>, <<Directive, "Texte ">>,
     <<Directive, "", "", "", "Texte">>, <<"", " Texte", "  ">>, LongText}

QuestionTexts == {NoText, <<"Repondez.">>, <<Label, "", "She ___ home.">>, <<Label>>}

FormatSections ==
    [section_title : {"I"}, instructions : FormatInstrs,
     questions : {<<>>} \cup {<<[question |-> qt]>> : qt \in QuestionTexts}]

\* One exam of a few sections of every kind, or one exam with enough long
\* sections for pass 2 to reach a snapshot.
FormatCorpora ==
    {<<[sections |-> secs]>> : secs \in SeqsUpTo(FormatSections, MaxFormatSections) \ {<<>>}}
    \cup {<<[sections |-> [k \in 1..n |->
                [section_title |-> "I", instructions |-> LongText, questions |-> <<>>]]]>> :
            n \in save_every..MaxTargets}

FormatArgs == {NoArgs} \cup [gemini : {TRUE}, dry_run : BOOLEAN, limit : {0, 1, save_every}]

InitFormat ==
    /\ script = "format_exam_text"
    /\ pc = "load"
    /\ catalog_file \in FormatCorpora
    /\ backup_file = StaleBackup
    /\ exams = <<>>
    /\ exams0 = catalog_file
    /\ writes = 0
    /\ simple_indices = <<>> /\ gemini_indices = <<>> /\ ok_indices = <<>>
    /\ batch_num = 0 /\ n_questions = 0
    /\ gemini_success = 0 /\ gemini_fail = 0
    /\ attempt = 0 /\ call_result = NoCall /\ plan = NoDoc
    /\ requests = 0 /\ last_resp = "none"
    /\ stored = <<>> /\ slept = FALSE
    /\ oracle_left = [entries |-> MaxEntries, refs |-> MaxRefs, texts |-> MaxReformats]
    /\ args \in FormatArgs
    /\ GEMINI_API_KEY \in {None, "key"}
    /\ targets = <<>> /\ idx = 0 /\ stats = NoStats
    /\ total_questions = 0 /\ total_fixed = 0

\* What format_exam_text has no use for.
unused_by_format == <<simple_indices, gemini_indices, ok_indices, batch_num, n_questions,
                      plan, stored, total_questions, total_fixed>>

\* shutil.copy2: the copy holds what the file holds.
copy2(src) == [exists |-> TRUE, doc |-> src]

\* main lines 262-263.
LoadFormat ==
    /\ script = "format_exam_text" /\ pc = "load"
    /\ exams' = catalog_file
    /\ pc' = "backup"
    /\ UNCHANGED <<script, files, history, unused_by_format, counters, call_state,
                   slept, args, GEMINI_API_KEY, targets, idx, stats>>

\* The backup left for the end of the run.
BackupFormat_deferred ==
    /\ script = "format_exam_text" /\ pc = "backup"
    /\ pc' = "pass1"
    /\ UNCHANGED <<script, files, exams, history, unused_by_format, counters,
                   call_state, slept, args, GEMINI_API_KEY, targets, idx, stats>>

\* main lines 267-269: the file exists, it was read.
BackupFormat ==
    /\ script = "format_exam_text" /\ pc = "backup"
    /\ backup_file' = copy2(catalog_file)
    /\ pc' = "pass1"
    /\ UNCHANGED <<script, catalog_file, writes, exams, history, unused_by_format,
                   counters, call_state, slept, args, GEMINI_API_KEY, targets, idx, stats>>

\* main lines 273-280.
Pass1 ==
    /\ script = "format_exam_text" /\ pc = "pass1"
    /\ exams' = pass1(exams)
    /\ stats' = pass1_stats(exams)
    /\ pc' = IF args.gemini THEN "pass2" ELSE "save"
    /\ UNCHANGED <<script, files, history, unused_by_format, counters, call_state,
                   slept, args, GEMINI_API_KEY, targets, idx>>

\* pass2_gemini lines 205-213: the sections whose stripped instructions are
\* over the length, cut to the limit when there is one.
pass2_targets(doc, limit) ==
    LET pairs == SectionPairs(doc, 1, 1)
        long == SelectSeq(pairs, LAMBDA pr :
                    text_len(text_strip(TextOrEmpty(doc[pr[1]].sections[pr[2]].instructions)))
                        > long_instructions)
        found == [n \in 1..Len(long) |-> <<long[n][1] - 1, long[n][2] - 1>>]
    IN  IF limit # 0 /\ limit < Len(found) THEN SubSeq(found, 1, limit) ELSE found

\* pass2_gemini without the test of line 216.
Pass2Begin_ignores_dry_run ==
    /\ script = "format_exam_text" /\ pc = "pass2"
    /\ IF GEMINI_API_KEY = None
       THEN /\ pc' = "save"
            /\ UNCHANGED <<targets, stats>>
       ELSE /\ targets' = pass2_targets(exams, args.limit)
            /\ stats' = [stats EXCEPT !.gemini_targets = Len(targets')]
            /\ pc' = IF targets' = <<>> THEN "save" ELSE "call"
    /\ UNCHANGED <<script, files, exams, history, unused_by_format, counters,
                   call_state, slept, args, GEMINI_API_KEY, idx>>

\* pass2_gemini lines 201-220.
Pass2Begin ==
    /\ script = "format_exam_text" /\ pc = "pass2"
    /\ IF GEMINI_API_KEY = None
       THEN /\ pc' = "save"
            /\ UNCHANGED <<targets, stats>>
       ELSE /\ targets' = pass2_targets(exams, args.limit)
            /\ stats' = [stats EXCEPT !.gemini_targets = Len(targets')]
            /\ pc' = IF args.dry_run \/ targets' = <<>> THEN "save" ELSE "call"
    /\ UNCHANGED <<script, files, exams, history, unused_by_format, counters,
                   call_state, slept, args, GEMINI_API_KEY, idx>>

\* One iteration of format_exam_text.call_gemini's loop: a request and what
\* is done with its outcome.  A response that is not the expected JSON
\* raises inside the try and is an error.
format_call_gemini ==
    /\ script = "format_exam_text" /\ pc = "call"
    /\ \E resp \in Responses :
          /\ requests' = requests + 1
          /\ last_resp' = resp
          /\ IF resp = "ok"
             THEN call_result' = "text" /\ pc' = "result" /\ UNCHANGED attempt
             ELSE IF attempt + 1 < retries
             THEN attempt' = attempt + 1 /\ UNCHANGED <<call_result, pc>>
             ELSE call_result' = "none" /\ pc' = "result" /\ UNCHANGED attempt
    /\ slept' = FALSE
    /\ UNCHANGED <<script, files, exams, history, unused_by_format, counters,
                   args, GEMINI_API_KEY, targets, idx, stats>>

\* The section of the current target.
TargetExam == targets[idx + 1][1] + 1
TargetSection == targets[idx + 1][2] + 1
TargetInstr == exams[TargetExam].sections[TargetSection].instructions

\* The texts a response may carry for these instructions: blanks, a word,
\* and the instructions under a bold title.
OracleTexts(instr, left) ==
    {<<"  ">>, <<"Texte">>}
    \cup (IF left.texts > 0 THEN {<<"", "**Titre**", "">> \o instr \o <<"">>} ELSE {})

\* pass2_gemini lines 227-236; call_gemini returned the stripped text of the
\* response, or None.
Pass2Result ==
    /\ script = "format_exam_text" /\ pc = "result"
    /\ \E raw \in IF call_result = "text" THEN OracleTexts(TargetInstr, oracle_left)
                  ELSE {NoText} :
          LET result == IF raw = NoText THEN NoText ELSE text_strip(raw)
          IN  IF TextTruthy(result) /\ 2 * text_len(result) > text_len(TargetInstr)
              THEN /\ exams' = [exams EXCEPT
                                  ![TargetExam].sections[TargetSection].instructions = result]
                   /\ gemini_success' = gemini_success + 1
                   /\ oracle_left' = [oracle_left EXCEPT !.texts = @ - 1]
                   /\ UNCHANGED gemini_fail
              ELSE /\ gemini_fail' = gemini_fail + 1
                   /\ UNCHANGED <<exams, gemini_success, oracle_left>>
    /\ pc' = IF (idx + 1) % save_every = 0 THEN "snapshot" ELSE "sleep"
    /\ attempt' = 0 /\ call_result' = NoCall /\ requests' = 0 /\ last_resp' = "none"
    /\ UNCHANGED <<script, files, exams0, unused_by_format, slept, args,
                   GEMINI_API_KEY, targets, idx, stats>>

\* A file opened for writing and not yet written.
Truncated == <<[sections |-> <<>>, truncated |-> TRUE]>>

\* save_progress line 195: open(path, "w").
save_progress_open ==
    /\ script = "format_exam_text" /\ pc = "snapshot"
    /\ catalog_file' = Truncated
    /\ writes' = writes + 1
    /\ pc' = "dump"
    /\ UNCHANGED <<script, backup_file, exams, history, unused_by_format, counters,
                   call_state, slept, args, GEMINI_API_KEY, targets, idx, stats>>

\* save_progress line 196: json.dump, and the file is closed.
save_progress_dump ==
    /\ script = "format_exam_text" /\ pc = "dump"
    /\ catalog_file' = exams
    /\ pc' = "sleep"
    /\ UNCHANGED <<script, backup_file, writes, exams, history, unused_by_format,
                   counters, call_state, slept, args, GEMINI_API_KEY, targets, idx, stats>>

\* pass2_gemini lines 244-245 and the loop's next item.
Pass2Sleep ==
    /\ script = "format_exam_text" /\ pc = "sleep"
    /\ slept' = (idx < Len(targets) - 1)
    /\ idx' = idx + 1
    /\ pc' = IF idx + 1 < Len(targets) THEN "call" ELSE "save"
    /\ UNCHANGED <<script, files, exams, history, unused_by_format, counters,
                   call_state, args, GEMINI_API_KEY, targets, stats>>

\* main lines 284-285.
SaveFormat ==
    /\ script = "format_exam_text" /\ pc = "save"
    /\ catalog_file' = exams
    /\ writes' = writes + 1
    /\ pc' = "done"
    /\ UNCHANGED <<script, backup_file, exams, history, unused_by_format, counters,
                   call_state, slept, args, GEMINI_API_KEY, targets, idx, stats>>

NextFormat ==
    \/ LoadFormat
    \/ BackupFormat
    \/ Pass1
    \/ Pass2Begin
    \/ format_call_gemini
    \/ Pass2Result
    \/ save_progress_open
    \/ save_progress_dump
    \/ Pass2Sleep
    \/ SaveFormat

SpecFormat == InitFormat /\ [][NextFormat]_vars

\* C11: the periodic snapshot is atomic: wherever the run is interrupted, the
\* corpus file holds a complete document, the previous one or the new one,
\* never a partly written one.
C11_SnapshotAtomic ==
    script = "format_exam_text" => catalog_file # Truncated

\* C12: with the dry-run flag, pass2_gemini makes no oracle call and changes
\* no section's instructions, whatever the corpus and the limit: the corpus
\* in memory stays what pass 1 made of it, and only the number of targets is
\* reported.
C12_DryRunNoCall ==
    (script = "format_exam_text" /\ args.gemini /\ args.dry_run) =>
        /\ pc \notin {"call", "result", "snapshot", "dump", "sleep"}
        /\ requests = 0 /\ last_resp = "none"
        /\ gemini_success = 0 /\ gemini_fail = 0
        /\ pc \in {"pass2", "save", "done"} => exams = pass1(exams0)
        /\ (pc \in {"save", "done"} /\ GEMINI_API_KEY # None) =>
              /\ targets = pass2_targets(exams, args.limit)
              /\ stats.gemini_targets = Len(targets)

\* A dry run ended that had a key and found targets to report.
C12_Witness ==
    /\ script = "format_exam_text" /\ pc = "done"
    /\ args.gemini /\ args.dry_run
    /\ GEMINI_API_KEY # None
    /\ Len(targets) > 0 /\ stats.gemini_targets = Len(targets)

(***************************************************************************)
(* fix_all_exams.  A question is a record of the fields fix_question       *)
(* reads; an absent or null string field is None.  options is              *)
(* [kind, items]: kind "dict" with items the <<key, value>> pairs in map   *)
(* order, kind "list" for a value that is no map, NoOptions for an absent  *)
(* or null field.  What the code asks of a string's characters is          *)
(* tabulated for the strings of the pool.                                  *)
(***************************************************************************)
NoOptions == [kind |-> "none", items |-> <<>>]

\* An option value that is not a string.
NonStr == "<42>"
IsStr(val) == val # NonStr

OptionsTruthy(options) == options.items # <<>>

\* str.lower
lower(t) ==
    CASE t = " B " -> " b "
      [] t = "A" -> "a"
      [] t = "Anglais" -> "anglais"
      [] t = "Anglais " -> "anglais "
      [] t = "B" -> "b"
      [] t = "C'est faux" -> "c'est faux"
      [] t = "Compute $2^{3}$." -> "compute $2^{3}$."
      [] t = "Correct" -> "correct"
      [] t = "Correct option" -> "correct option"
      [] t = "Justification" -> "justification"
      [] t = "Latin" -> "latin"
      [] t = "N/A" -> "n/a"
      [] t = "Option" -> "option"
      [] t = "PARIS" -> "paris"
      [] t = "Paris" -> "paris"
      [] t = "Ro" -> "ro"
      [] t = "Rome" -> "rome"
      [] t = "Rome " -> "rome "
      [] t = "She $\\underline{went\\:home}$." -> "she $\\underline{went\\:home}$."
      [] t = "Texte" -> "texte"
      [] t = "Une dissertation" -> "une dissertation"
      [] t = "Vrai" -> "vrai"
      [] t = "Vrai ou faux" -> "vrai ou faux"
      [] t = "Wait $\\ldots$ and \\ldots" -> "wait $\\ldots$ and \\ldots"
      [] t = "Write the $9^{th}$ word." -> "write the $9^{th}$ word."
      [] t = "b) Rome" -> "b) rome"
      [] t = "e) Lyon" -> "e) lyon"
      [] OTHER -> t

\* str.strip of an answer, a label or a subject.
answer_strip(t) ==
    CASE t = " B " -> "B"
      [] t = " b " -> "b"
      [] t = "Anglais " -> "Anglais"
      [] t = "Rome " -> "Rome"
      [] t = "anglais " -> "anglais"
      [] t = "rome " -> "rome"
      [] OTHER -> t

\* sub in t, for the strings the code searches.
SUBSTRINGS ==
    {<<"a", "paris">>,
     <<"b", " b ">>,
     <<"b", "b) Rome">>,
     <<"b", "b) rome">>,
     <<"dissertation", "Une dissertation">>,
     <<"dissertation", "une dissertation">>,
     <<"e", "b) rome">>,
     <<"e", "rome">>,
     <<"e", "rome ">>,
     <<"faux", "C'est faux">>,
     <<"faux", "c'est faux">>,
     <<"faux", "vrai ou faux">>,
     <<"ro", "b) rome">>,
     <<"ro", "rome">>,
     <<"ro", "rome ">>,
     <<"rome", "b) rome">>,
     <<"rome", "rome ">>,
     <<"vrai", "vrai ou faux">>,
     <<"write", "write the $9^{th}$ word.">>}

contains(sub, t) == sub = "" \/ sub = t \/ <<sub, t>> \in SUBSTRINGS

OPTION_LETTERS == {"a", "b", "c", "d", "e", "f"}

\* Lines 183-185: the first character when it is one of a..f and the string
\* ends there or goes on with one of ".):, ".
leading_letter(fa_lower) ==
    CASE fa_lower \in OPTION_LETTERS -> fa_lower
      [] fa_lower = "b) rome" -> "b"
      [] fa_lower = "e) lyon" -> "e"
      [] OTHER -> None

\* The language subjects with one of the mathematics subjects among them.
LANGUAGE_SUBJECTS_with_maths ==
    {"anglais", "english", "espagnol", "spanish", "español",
     "français", "francais", "french", "kreyol", "kreyòl",
     "philosophie", "philosophy", "philo",
     "histoire-géographie", "histoire", "géographie",
     "histoire et géographie", "histoire-geographie",
     "art et musique", "arts et musique",
     "éducation esthétique et artistique",
     "kominikasyon kreyòl", "culture générale",
     "connaissances générales", "éthique", "art_musique", "maths"}

LANGUAGE_SUBJECTS ==
    {"anglais", "english", "espagnol", "spanish", "español",
     "français", "francais", "french", "kreyol", "kreyòl",
     "philosophie", "philosophy", "philo",
     "histoire-géographie", "histoire", "géographie",
     "histoire et géographie", "histoire-geographie",
     "art et musique", "arts et musique",
     "éducation esthétique et artistique",
     "kominikasyon kreyòl", "culture générale",
     "connaissances générales", "éthique", "art_musique"}

MATH_SUBJECTS ==
    {"mathématiques", "mathematiques", "maths", "math",
     "physique", "physics", "chimie", "chemistry",
     "svt", "biologie", "géologie", "anatomie",
     "économie", "economie",
     "informatique",
     "sciences infirmières",
     "mathématiques topographie",
     "zoologie"}

\* Line 77: the ordinals; line 86: the underlines; lines 97-98: the dots.
sub_ordinals(text) ==
    CASE text = "Write the $9^{th}$ word." -> "Write the 9th word."
      [] OTHER -> text

sub_underlines(text) ==
    CASE text = "She $\\underline{went\\:home}$." -> "She went home."
      [] OTHER -> text

replace_ldots(text) ==
    CASE text = "Wait $\\ldots$ and \\ldots" -> "Wait ... and ..."
      [] OTHER -> text

\* Line 101: re.search(r'\d+\^', original); line 103: '\\underline' in original.
has_power(original) == original \in {"Write the $9^{th}$ word.", "Compute $2^{3}$."}
has_underline(original) == original = "She $\\underline{went\\:home}$."

clean_latex_for_language(text, subject_lower) ==
    IF ~Truthy(text) \/ subject_lower \notin LANGUAGE_SUBJECTS THEN text
    ELSE replace_ldots(sub_underlines(sub_ordinals(text)))

\* The counters clean_latex_for_language adds to.
clean_latex_hits(text, subject_lower) ==
    IF clean_latex_for_language(text, subject_lower) = text THEN <<>>
    ELSE (IF has_power(text) THEN <<"ordinals_fixed">> ELSE <<>>)
         \o (IF has_underline(text) THEN <<"underlines_fixed">> ELSE <<>>)

CORRECT_LABELS ==
    {"correct option", "option", "correct", "réponse correcte",
     "option correcte", "opción correcta", "respuesta correcta"}

RECURSIVE extract_correct_from_answer_parts(_)
extract_correct_from_answer_parts(answer_parts) ==
    IF answer_parts = <<>> THEN None
    ELSE IF lower(OrEmpty(Head(answer_parts).label)) \in CORRECT_LABELS
    THEN answer_strip(OrEmpty(Head(answer_parts).answer))
    ELSE extract_correct_from_answer_parts(Tail(answer_parts))

\* The key of the first item of the map that passes the test, or None.
first_key(items, Test(_)) ==
    LET passing == {n \in 1..Len(items) : Test(items[n][2])}
    IN  IF passing = {} THEN None ELSE items[Min(passing)][1]

\* st is [q, hits]: the question and the counters of `stats` added to.
Hit(st, q, key) == [q |-> q, hits |-> Append(st.hits, key)]

\* fix_mcq_correct_key comparing the values as they are written.
fix_mcq_correct_key_case_sensitive(st) ==
    LET correct == st.q.correct
        options == st.q.options
        wanted == answer_strip(correct)
        exact == first_key(options.items,
                    LAMBDA val : IsStr(val) /\ answer_strip(val) = wanted)
        partial == first_key(options.items,
                    LAMBDA val : IsStr(val) /\ contains(wanted, answer_strip(val)))
    IN  IF ~Truthy(correct) \/ ~OptionsTruthy(options) \/ options.kind # "dict" THEN st
        ELSE IF \E n \in 1..Len(options.items) : lower(options.items[n][1]) = lower(correct)
        THEN st
        ELSE IF exact # None
        THEN Hit(st, [st.q EXCEPT !.correct = exact], "mcq_correct_key_fixed")
        ELSE IF partial # None
        THEN Hit(st, [st.q EXCEPT !.correct = partial], "mcq_correct_key_fixed")
        ELSE st

\* fix_mcq_correct_key searching in one pass: the first option whose value
\* contains correct, whether or not a later one equals it.
fix_mcq_correct_key_single_pass(st) ==
    LET correct == st.q.correct
        options == st.q.options
        wanted == answer_strip(lower(correct))
        partial == first_key(options.items,
                    LAMBDA val : IsStr(val) /\ contains(wanted, answer_strip(lower(val))))
    IN  IF ~Truthy(correct) \/ ~OptionsTruthy(options) \/ options.kind # "dict" THEN st
        ELSE IF \E n \in 1..Len(options.items) : lower(options.items[n][1]) = lower(correct)
        THEN st
        ELSE IF partial # None
        THEN Hit(st, [st.q EXCEPT !.correct = partial], "mcq_correct_key_fixed")
        ELSE st

fix_mcq_correct_key(st) ==
    LET correct == st.q.correct
        options == st.q.options
        wanted == answer_strip(lower(correct))
        exact == first_key(options.items,
                    LAMBDA val : IsStr(val) /\ answer_strip(lower(val)) = wanted)
        partial == first_key(options.items,
                    LAMBDA val : IsStr(val) /\ contains(wanted, answer_strip(lower(val))))
    IN  IF ~Truthy(correct) \/ ~OptionsTruthy(options) \/ options.kind # "dict" THEN st
        ELSE IF \E n \in 1..Len(options.items) : lower(options.items[n][1]) = lower(correct)
        THEN st
        ELSE IF exact # None
        THEN Hit(st, [st.q EXCEPT !.correct = exact], "mcq_correct_key_fixed")
        ELSE IF partial # None
        THEN Hit(st, [st.q EXCEPT !.correct = partial], "mcq_correct_key_fixed")
        ELSE st

SKIP_VALUES ==
    {"cannot be determined", "incomplete question", "n/a", "",
     "no model answer available", "cannot be determined from provided text"}

TRUE_FALSE_WORDS == {"vrai", "faux", "true", "false", "v", "f"}

\* Lines 160-171.  qtext is the lower-cased question text.
fix_type(st) ==
    LET qtext == lower(OrEmpty(st.q.question))
        inferred == IF OptionsTruthy(st.q.options) THEN "multiple_choice"
                    ELSE IF \/ contains("dissertation", qtext)
                            \/ contains("rédiger", qtext)
                            \/ contains("write", qtext)
                    THEN "essay"
                    ELSE "short_answer"
    IN  IF st.q.type = None
        THEN Hit(st, [st.q EXCEPT !.type = inferred], "type_none_fixed")
        ELSE st

\* Lines 176-196: correct from final_answer.
fix_mcq_from_final(st, options, final_answer) ==
    LET fa_lower == answer_strip(lower(final_answer))
        by_value == first_key(options.items,
                       LAMBDA val : IsStr(val) /\ answer_strip(lower(val)) = fa_lower)
    IN  IF final_answer = "" THEN st
        ELSE IF fa_lower \in OPTION_LETTERS
        THEN Hit(st, [st.q EXCEPT !.correct = fa_lower], "mcq_correct_set_from_final")
        ELSE IF leading_letter(fa_lower) # None
        THEN Hit(st, [st.q EXCEPT !.correct = leading_letter(fa_lower)],
                 "mcq_correct_set_from_final")
        ELSE IF OptionsTruthy(options) /\ options.kind = "dict" /\ by_value # None
        THEN Hit(st, [st.q EXCEPT !.correct = by_value], "mcq_correct_set_from_final")
        ELSE st

\* Lines 199-212: correct from answer_parts, when the question still has none.
fix_mcq_from_parts(st, options, answer_parts) ==
    LET extracted == extract_correct_from_answer_parts(answer_parts)
        ext_lower == answer_strip(lower(extracted))
        by_value == first_key(options.items,
                       LAMBDA val : IsStr(val) /\ answer_strip(lower(val)) = ext_lower)
    IN  IF Truthy(st.q.correct) \/ ~Truthy(extracted) THEN st
        ELSE IF ext_lower \in OPTION_LETTERS
        THEN Hit(st, [st.q EXCEPT !.correct = ext_lower], "mcq_correct_set_from_parts")
        ELSE IF OptionsTruthy(options) /\ options.kind = "dict" /\ by_value # None
        THEN Hit(st, [st.q EXCEPT !.correct = by_value], "mcq_correct_set_from_parts")
        ELSE st

\* The first answer of answer_parts that is no sentinel, or None.
RECURSIVE first_usable_answer(_)
first_usable_answer(answer_parts) ==
    IF answer_parts = <<>> THEN None
    ELSE LET ans == answer_strip(OrEmpty(Head(answer_parts).answer))
         IN  IF ans # "" /\ lower(ans) \notin SKIP_VALUES THEN ans
             ELSE first_usable_answer(Tail(answer_parts))

\* Lines 219-232 as they would be if the fallback took the answer of the
\* first answer_parts entry, whatever it says.
fix_fill_blank_first_part(st, final_answer, answer_parts) ==
    IF final_answer # "" /\ answer_strip(lower(final_answer)) \notin SKIP_VALUES
    THEN Hit(st, [st.q EXCEPT !.correct = final_answer], "fill_correct_set")
    ELSE IF answer_parts # <<>>
    THEN Hit(st, [st.q EXCEPT !.correct = answer_strip(OrEmpty(Head(answer_parts).answer))],
             "fill_correct_set")
    ELSE st

\* Lines 219-232.
fix_fill_blank(st, final_answer, answer_parts) ==
    IF final_answer # "" /\ answer_strip(lower(final_answer)) \notin SKIP_VALUES
    THEN Hit(st, [st.q EXCEPT !.correct = final_answer], "fill_correct_set")
    ELSE IF first_usable_answer(answer_parts) # None
    THEN Hit(st, [st.q EXCEPT !.correct = first_usable_answer(answer_parts)],
             "fill_correct_set")
    ELSE st

\* Lines 235-246 as they would be if faux were looked for before vrai.
fix_true_false_faux_first(st, final_answer) ==
    LET fa_lower == answer_strip(lower(final_answer))
    IN  IF final_answer = "" THEN st
        ELSE IF fa_lower \in TRUE_FALSE_WORDS
        THEN Hit(st, [st.q EXCEPT !.correct = fa_lower], "tf_correct_set")
        ELSE IF contains("faux", fa_lower)
        THEN Hit(st, [st.q EXCEPT !.correct = "faux"], "tf_correct_set")
        ELSE IF contains("vrai", fa_lower)
        THEN Hit(st, [st.q EXCEPT !.correct = "vrai"], "tf_correct_set")
        ELSE st

\* Lines 235-246.
fix_true_false(st, final_answer) ==
    LET fa_lower == answer_strip(lower(final_answer))
    IN  IF final_answer = "" THEN st
        ELSE IF fa_lower \in TRUE_FALSE_WORDS
        THEN Hit(st, [st.q EXCEPT !.correct = fa_lower], "tf_correct_set")
        ELSE IF contains("vrai", fa_lower)
        THEN Hit(st, [st.q EXCEPT !.correct = "vrai"], "tf_correct_set")
        ELSE IF contains("faux", fa_lower)
        THEN Hit(st, [st.q EXCEPT !.correct = "faux"], "tf_correct_set")
        ELSE st

TEXT_FIELDS == <<"question", "model_answer", "scaffold_text", "explanation">>

\* Lines 250-255, one field after the other.
RECURSIVE fix_text_fields(_, _, _)
fix_text_fields(st, subject_lower, fields) ==
    IF fields = <<>> THEN st
    ELSE LET field == Head(fields)
             val == st.q[field]
         IN  fix_text_fields(
                [q |-> [st.q EXCEPT ![field] = clean_latex_for_language(val, subject_lower)],
                 hits |-> st.hits \o clean_latex_hits(val, subject_lower)],
                subject_lower, Tail(fields))

\* Lines 258-266.
RECURSIVE hints_hits(_, _)
hints_hits(hints, subject_lower) ==
    IF hints = <<>> THEN <<>>
    ELSE clean_latex_hits(Head(hints), subject_lower) \o hints_hits(Tail(hints), subject_lower)

fix_hints(st, subject_lower) ==
    [q |-> [st.q EXCEPT !.hints =
                [n \in 1..Len(@) |-> clean_latex_for_language(@[n], subject_lower)]],
     hits |-> st.hits \o hints_hits(st.q.hints, subject_lower)]

\* fix_question with Fix 3 not asking whether correct is set.
fix_question_run_fill_overwrites(question, subject_lower) ==
    LET correct == question.correct
        options == question.options
        final_answer == answer_strip(OrEmpty(question.final_answer))
        answer_parts == question.answer_parts
        s0 == fix_type([q |-> question, hits |-> <<>>])
        qtype == s0.q.type
        s1 == IF qtype = "multiple_choice" /\ ~Truthy(correct)
              THEN fix_mcq_from_parts(fix_mcq_from_final(s0, options, final_answer),
                                      options, answer_parts)
              ELSE s0
        s2 == IF qtype = "multiple_choice" /\ Truthy(s1.q.correct)
              THEN fix_mcq_correct_key(s1) ELSE s1
        s3 == IF qtype = "fill_blank"
              THEN fix_fill_blank(s2, final_answer, answer_parts) ELSE s2
        s4 == IF qtype = "true_false" /\ ~Truthy(correct)
              THEN fix_true_false(s3, final_answer) ELSE s3
    IN  IF subject_lower \in LANGUAGE_SUBJECTS
        THEN fix_hints(fix_text_fields(s4, subject_lower, TEXT_FIELDS), subject_lower)
        ELSE s4

\* fix_question with the rules asking for the type read at entry.
fix_question_run_stale_type(question, subject_lower) ==
    LET correct == question.correct
        options == question.options
        final_answer == answer_strip(OrEmpty(question.final_answer))
        answer_parts == question.answer_parts
        s0 == fix_type([q |-> question, hits |-> <<>>])
        qtype == question.type
        s1 == IF qtype = "multiple_choice" /\ ~Truthy(correct)
              THEN fix_mcq_from_parts(fix_mcq_from_final(s0, options, final_answer),
                                      options, answer_parts)
              ELSE s0
        s2 == IF qtype = "multiple_choice" /\ Truthy(s1.q.correct)
              THEN fix_mcq_correct_key(s1) ELSE s1
        s3 == IF qtype = "fill_blank" /\ ~Truthy(correct)
              THEN fix_fill_blank(s2, final_answer, answer_parts) ELSE s2
        s4 == IF qtype = "true_false" /\ ~Truthy(correct)
              THEN fix_true_false(s3, final_answer) ELSE s3
    IN  IF subject_lower \in LANGUAGE_SUBJECTS
        THEN fix_hints(fix_text_fields(s4, subject_lower, TEXT_FIELDS), subject_lower)
        ELSE s4

\* fix_question, with the counters it added to.  correct, options,
\* final_answer and answer_parts are read once, at entry; qtype is the type
\* after Fix 0.
fix_question_run(question, subject_lower) ==
    LET correct == question.correct
        options == question.options
        final_answer == answer_strip(OrEmpty(question.final_answer))
        answer_parts == question.answer_parts
        s0 == fix_type([q |-> question, hits |-> <<>>])
        qtype == s0.q.type
        s1 == IF qtype = "multiple_choice" /\ ~Truthy(correct)
              THEN fix_mcq_from_parts(fix_mcq_from_final(s0, options, final_answer),
                                      options, answer_parts)
              ELSE s0
        s2 == IF qtype = "multiple_choice" /\ Truthy(s1.q.correct)
              THEN fix_mcq_correct_key(s1) ELSE s1
        s3 == IF qtype = "fill_blank" /\ ~Truthy(correct)
              THEN fix_fill_blank(s2, final_answer, answer_parts) ELSE s2
        s4 == IF qtype = "true_false" /\ ~Truthy(correct)
              THEN fix_true_false(s3, final_answer) ELSE s3
    IN  IF subject_lower \in LANGUAGE_SUBJECTS
        THEN fix_hints(fix_text_fields(s4, subject_lower, TEXT_FIELDS), subject_lower)
        ELSE s4

fix_question(question, subject_lower) == fix_question_run(question, subject_lower).q

\* The keys of fix_all_exams.stats.
STAT_KEYS ==
    {"mcq_correct_set_from_final", "mcq_correct_set_from_parts", "mcq_correct_key_fixed",
     "fill_correct_set", "tf_correct_set", "ordinals_fixed", "underlines_fixed",
     "dollar_amounts_fixed", "latex_backslash_cleaned", "mcq_options_extracted",
     "type_none_fixed", "scaffold_text_cleaned"}

\* Questions in a section of a fix_all_exams corpus.
MaxFixAllQuestions == 2

FixAllQuestions ==
    [type : {None, "multiple_choice", "true_false"},
     correct : {None, "Rome "},
     options : {NoOptions, [kind |-> "dict", items |-> <<<<"a", "Paris">>, <<"b", "Rome">>>>]},
     final_answer : {None, "b) Rome", "Vrai"},
     answer_parts : {<<>>},
     question : {"Write the $9^{th}$ word."},
     model_answer : {None}, scaffold_text : {None}, explanation : {None},
     hints : {<<>>}]

FixAllSubjects == {None, "Anglais ", "maths"}

\* One exam of one section.
FixAllCorpora ==
    {<<[subject |-> subject,
        sections |-> <<[section_title |-> "I", instructions |-> None, questions |-> qs]>>]>> :
        subject \in FixAllSubjects,
        qs \in SeqsUpTo(FixAllQuestions, MaxFixAllQuestions) \ {<<>>}}

InitFixAll ==
    /\ script = "fix_all_exams"
    /\ pc = "load"
    /\ catalog_file \in FixAllCorpora
    /\ backup_file = StaleBackup
    /\ exams = <<>>
    /\ exams0 = catalog_file
    /\ writes = 0
    /\ simple_indices = <<>> /\ gemini_indices = <<>> /\ ok_indices = <<>>
    /\ batch_num = 0 /\ n_questions = 0
    /\ gemini_success = 0 /\ gemini_fail = 0
    /\ attempt = 0 /\ call_result = NoCall /\ plan = NoDoc
    /\ requests = 0 /\ last_resp = "none"
    /\ stored = <<>> /\ slept = FALSE
    /\ oracle_left = [entries |-> MaxEntries, refs |-> MaxRefs, texts |-> MaxReformats]
    /\ args = NoArgs /\ GEMINI_API_KEY = None
    /\ targets = <<>> /\ idx = 0
    /\ stats = [k \in STAT_KEYS |-> 0]
    /\ total_questions = 0 /\ total_fixed = 0

\* What fix_all_exams has no use for.
unused_by_fix_all == <<routing, batch_num, n_questions, counters, call_state, plan, stored,
                       slept, args, GEMINI_API_KEY, targets, idx>>

\* main lines 281-282.
LoadFixAll ==
    /\ script = "fix_all_exams" /\ pc = "load"
    /\ exams' = catalog_file
    /\ pc' = "backup"
    /\ UNCHANGED <<script, files, history, unused_by_fix_all, stats,
                   total_questions, total_fixed>>

\* main lines 288-289: the backup is the loaded document, written out.
BackupFixAll ==
    /\ script = "fix_all_exams" /\ pc = "backup"
    /\ backup_file' = [exists |-> TRUE, doc |-> exams]
    /\ pc' = "fix"
    /\ UNCHANGED <<script, catalog_file, writes, exams, history, unused_by_fix_all,
                   stats, total_questions, total_fixed>>

\* main line 295.
subject_of(exam) == answer_strip(lower(OrEmpty(exam.subject)))

\* The calls of fix_question the loop makes, in order: the question as it
\* was, and what the call did.
RECURSIVE fix_calls(_)
fix_calls(doc) ==
    IF doc = <<>> THEN <<>>
    ELSE LET qs == Flatten(Head(doc).sections)
             subject == subject_of(Head(doc))
         IN  [j \in 1..Len(qs) |-> [old |-> qs[j], run |-> fix_question_run(qs[j], subject)]]
             \o fix_calls(Tail(doc))

\* The corpus after the loop: every question fixed in place.
fix_all(doc) ==
    [e \in 1..Len(doc) |->
        [doc[e] EXCEPT !.sections =
            [k \in 1..Len(doc[e].sections) |->
                [doc[e].sections[k] EXCEPT !.questions =
                    [j \in 1..Len(doc[e].sections[k].questions) |->
                        fix_question(doc[e].sections[k].questions[j], subject_of(doc[e]))]]]]]

\* Line 303: old_correct != new_correct and new_correct is not None.
counts_as_fixed(call) ==
    call.old.correct # call.run.q.correct /\ call.run.q.correct # None

RECURSIVE all_hits(_)
all_hits(calls) ==
    IF calls = <<>> THEN <<>> ELSE Head(calls).run.hits \o all_hits(Tail(calls))

tally(hits, key) == Cardinality({h \in 1..Len(hits) : hits[h] = key})

\* main lines 294-304: fix_question on every question, in place.
FixLoop ==
    /\ script = "fix_all_exams" /\ pc = "fix"
    /\ exams' = fix_all(exams)
    /\ total_questions' = total_questions + Len(fix_calls(exams))
    /\ total_fixed' = total_fixed + Len(SelectSeq(fix_calls(exams), counts_as_fixed))
    /\ stats' = [k \in STAT_KEYS |-> stats[k] + tally(all_hits(fix_calls(exams)), k)]
    /\ pc' = "save"
    /\ UNCHANGED <<script, files, history, unused_by_fix_all>>

\* main lines 308-309.
SaveFixAll ==
    /\ script = "fix_all_exams" /\ pc = "save"
    /\ catalog_file' = exams
    /\ writes' = writes + 1
    /\ pc' = "done"
    /\ UNCHANGED <<script, backup_file, exams, history, unused_by_fix_all, stats,
                   total_questions, total_fixed>>

NextFixAll ==
    \/ LoadFixAll
    \/ BackupFixAll
    \/ FixLoop
    \/ SaveFixAll

SpecFixAll == InitFixAll /\ [][NextFixAll]_vars

(***************************************************************************)
(* fix_question and fix_mcq_correct_key on their own: one question of one  *)
(* exam, drawn from every combination of type, correct, options,           *)
(* final_answer and answer_parts, or of texts, hints and subject; one of   *)
(* the two functions is applied to it.                                     *)
(***************************************************************************)
QuestionTypes == {None, "multiple_choice", "fill_blank", "true_false", "essay"}

QuestionCorrects == {None, "", "b", "B", "Rome ", "rome", "PARIS", "Ro", "zzz"}

QuestionOptions ==
    {NoOptions,
     [kind |-> "dict", items |-> <<<<"a", "Paris">>, <<"b", "Rome">>>>],
     [kind |-> "dict", items |-> <<<<"A", "Paris">>, <<"B", "Rome">>>>],
     [kind |-> "dict", items |-> <<<<"0", "Paris">>, <<"1", "Rome">>>>],
     [kind |-> "dict", items |-> <<<<"a", NonStr>>, <<"b", "Rome ">>>>],
     [kind |-> "dict", items |-> <<<<"a", "b) Rome">>, <<"b", "Rome">>>>],
     [kind |-> "list", items |-> <<<<"0", "Paris">>, <<"1", "Rome">>>>]}

QuestionFinals ==
    {None, "", "b", " B ", "b) Rome", "Rome ", "Ro", "zzz", "Vrai", "C'est faux", "N/A", "e", "e) Lyon", "f",
     "Vrai ou faux"}

QuestionParts ==
    {<<>>,
     <<[label |-> "Justification", answer |-> "Rome"],
       [label |-> "Correct option", answer |-> " b "]>>,
     <<[label |-> "Correct", answer |-> "Rome"]>>,
     <<[label |-> "Option", answer |-> "b) Rome"]>>,
     <<[label |-> None, answer |-> None]>>,
     <<[label |-> "x", answer |-> "N/A"], [label |-> "y", answer |-> "Rome "]>>}

\* Questions that differ in what the answer rules read.
AnswerQuestions ==
    [type : QuestionTypes, correct : QuestionCorrects, options : QuestionOptions,
     final_answer : QuestionFinals, answer_parts : QuestionParts,
     question : {"Texte"},
     model_answer : {None}, scaffold_text : {None}, explanation : {None},
     hints : {<<>>}]

\* Questions that differ in what the text rules read.
TextQuestions ==
    [type : {None, "essay"}, correct : {None},
     options : {NoOptions, [kind |-> "dict", items |-> <<<<"a", "Paris">>, <<"b", "Rome">>>>]},
     final_answer : {None}, answer_parts : {<<>>},
     question : {None, "Write the $9^{th}$ word.", "Une dissertation", "Texte",
                 "Compute $2^{3}$."},
     model_answer : {None, "She $\\underline{went\\:home}$."},
     scaffold_text : {None, "Wait $\\ldots$ and \\ldots"},
     explanation : {None, "Write the $9^{th}$ word."},
     hints : {<<>>, <<"Wait $\\ldots$ and \\ldots", "Texte">>,
              <<"Write the $9^{th}$ word.", NonStr>>}]

QuestionSubjects == {None, "Anglais ", "maths", "english", "Latin"}

OneQuestion(subject, q) ==
    <<[subject |-> subject,
       sections |-> <<[section_title |-> "I", instructions |-> None, questions |-> <<q>>]>>]>>

QuestionCorpora ==
    {OneQuestion("maths", q) : q \in AnswerQuestions}
    \cup {OneQuestion(subject, q) : subject \in QuestionSubjects, q \in TextQuestions}

InitFixQuestion ==
    /\ script = "fix_question"
    /\ pc = "question"
    /\ catalog_file \in QuestionCorpora
    /\ backup_file = NoBackup
    /\ exams = catalog_file
    /\ exams0 = catalog_file
    /\ writes = 0
    /\ simple_indices = <<>> /\ gemini_indices = <<>> /\ ok_indices = <<>>
    /\ batch_num = 0 /\ n_questions = 0
    /\ gemini_success = 0 /\ gemini_fail = 0
    /\ attempt = 0 /\ call_result = NoCall /\ plan = NoDoc
    /\ requests = 0 /\ last_resp = "none"
    /\ stored = <<>> /\ slept = FALSE
    /\ oracle_left = [entries |-> MaxEntries, refs |-> MaxRefs, texts |-> MaxReformats]
    /\ args = NoArgs /\ GEMINI_API_KEY = None
    /\ targets = <<>> /\ idx = 0
    /\ stats = [k \in STAT_KEYS |-> 0]
    /\ total_questions = 0 /\ total_fixed = 0

\* The question of the corpus.
the_question(doc) == doc[1].sections[1].questions[1]

\* fix_question(q, subject), as main's loop calls it.
FixQuestionCall ==
    /\ script = "fix_question" /\ pc = "question"
    /\ exams' = fix_all(exams)
    /\ stats' = [k \in STAT_KEYS |-> stats[k] + tally(all_hits(fix_calls(exams)), k)]
    /\ pc' = "fixed"
    /\ UNCHANGED <<script, files, history, unused_by_fix_all, total_questions, total_fixed>>

\* fix_mcq_correct_key(q).
KeyCorrectionCall ==
    /\ script = "fix_question" /\ pc = "question"
    /\ LET run == fix_mcq_correct_key([q |-> the_question(exams), hits |-> <<>>])
       IN  /\ exams' = [exams EXCEPT ![1].sections[1].questions[1] = run.q]
           /\ stats' = [k \in STAT_KEYS |-> stats[k] + tally(run.hits, k)]
    /\ pc' = "keyed"
    /\ UNCHANGED <<script, files, history, unused_by_fix_all, total_questions, total_fixed>>

NextFixQuestion ==
    \/ FixQuestionCall
    \/ KeyCorrectionCall

SpecFixQuestion == InitFixQuestion /\ [][NextFixQuestion]_vars

\* The question before the call, after it, and the subject main passes.
Before == the_question(exams0)
After == the_question(exams)
Subject == subject_of(exams0[1])

\* k is, but for case, a key of the options.
IsKey(k, options) ==
    \E n \in 1..Len(options.items) : lower(options.items[n][1]) = lower(k)

\* C13: after fix_question on a multiple_choice question with an options
\* map, a non-empty correct is, but for case, one of the keys of the options:
\* never answer text, never a letter the options do not have.
C13_CorrectIsOptionKey ==
    (/\ pc = "fixed"
     /\ Before.type = "multiple_choice"
     /\ Before.options.kind = "dict"
     /\ Truthy(After.correct))
        => IsKey(After.correct, After.options)

\* The options whose value text is, but for case, the text t.
ValueMatches(options, t) ==
    {n \in 1..Len(options.items) :
        IsStr(options.items[n][2]) /\ lower(options.items[n][2]) = lower(t)}

\* C14: a multiple_choice question whose correct is, but for case, the value
\* text of one of its options has a key of the options as correct once
\* fix_mcq_correct_key has run: the key it had, or the key of the first
\* option with that value.
C14_ValueTextBecomesKey ==
    (/\ pc = "keyed"
     /\ Before.type = "multiple_choice"
     /\ Before.options.kind = "dict"
     /\ Truthy(Before.correct)
     /\ ValueMatches(Before.options, Before.correct) # {})
        => /\ IsKey(After.correct, After.options)
           /\ After.options = Before.options
           /\ \/ After.correct = Before.correct
              \/ After.correct =
                   Before.options.items[Min(ValueMatches(Before.options, Before.correct))][1]

\* The correct was the text of the second option in another case, and is now
\* that option's key.
C14_Witness ==
    /\ pc = "keyed"
    /\ Before.type = "multiple_choice"
    /\ Before.correct = "rome"
    /\ Before.options.items = <<<<"0", "Paris">>, <<"1", "Rome">>>>
    /\ After.correct = "1"

\* The counters of the rules that infer a correct.
INFERENCE_KEYS ==
    {"mcq_correct_set_from_final", "mcq_correct_set_from_parts",
     "fill_correct_set", "tf_correct_set"}

\* C15 as stated: a correct that was non-empty before fix_question has the
\* same value after it, whatever the type, final_answer, answer_parts and
\* options.
C15_CorrectUnchanged ==
    (pc = "fixed" /\ Truthy(Before.correct)) => After.correct = Before.correct

\* C15: the inference rules leave a correct that was non-empty alone: none of
\* them fires, and correct has the same value after fix_question, unless the
\* question is multiple_choice and correct was no key of its options: then
\* the key correction may have replaced it by the key of an option whose
\* value is or contains the former correct.
C15_InferenceKeepsCorrect ==
    (pc = "fixed" /\ Truthy(Before.correct)) =>
        /\ \A k \in INFERENCE_KEYS : stats[k] = 0
        /\ \/ After.correct = Before.correct
           \/ /\ After.type = "multiple_choice"
              /\ ~IsKey(Before.correct, Before.options)
              /\ \E n \in 1..Len(Before.options.items) :
                    /\ After.correct = Before.options.items[n][1]
                    /\ IsStr(Before.options.items[n][2])
                    /\ contains(answer_strip(lower(Before.correct)),
                                answer_strip(lower(Before.options.items[n][2])))

\* A correct holding the text of the first option became that option's key,
\* while final_answer named the other one.
C15_Witness ==
    /\ pc = "fixed"
    /\ Before.correct = "PARIS"
    /\ Before.final_answer = "b"
    /\ Before.options.items = <<<<"a", "Paris">>, <<"b", "Rome">>>>
    /\ After.correct = "a"

\* What a question says of its answer: final_answer and the answers of
\* answer_parts, stripped, as written and in lower case.
Evidence(q) ==
    LET fa == answer_strip(OrEmpty(q.final_answer))
        answers == {answer_strip(OrEmpty(q.answer_parts[n].answer)) :
                        n \in 1..Len(q.answer_parts)}
    IN  (({fa} \cup answers) \cup {lower(t) : t \in {fa} \cup answers}) \ {""}

\* c is taken from what the question says of its answer: one of those texts,
\* the option letter one of them starts with, the word vrai or faux found in
\* one of them, or the key of an option whose value is or contains one.
Derived(c, q) ==
    \/ c \in Evidence(q)
    \/ \E t \in Evidence(q) : leading_letter(lower(t)) = c
    \/ c \in {"vrai", "faux"} /\ \E t \in Evidence(q) : contains(c, lower(t))
    \/ \E n \in 1..Len(q.options.items) :
          /\ c = q.options.items[n][1]
          /\ IsStr(q.options.items[n][2])
          /\ \E t \in Evidence(q) :
                contains(lower(t), answer_strip(lower(q.options.items[n][2])))

\* C16: a question with correct unset keeps it unset when no rule applies (it
\* says nothing of its answer, or its type has no rule, or it is true_false
\* and final_answer has none of the words), and a correct that is assigned is
\* always derived from final_answer, answer_parts or an option whose value
\* matches them.
C16_NothingInvented ==
    (pc = "fixed" /\ ~Truthy(Before.correct)) =>
        /\ (\/ Evidence(Before) = {}
            \/ After.type \notin {"multiple_choice", "fill_blank", "true_false"}
            \/ /\ After.type = "true_false"
               /\ \A w \in TRUE_FALSE_WORDS :
                     ~contains(w, answer_strip(lower(OrEmpty(Before.final_answer)))))
              => After.correct = Before.correct
        /\ After.correct # Before.correct => Derived(After.correct, Before)

\* C17: a question that enters fix_question with no type leaves it with a
\* concrete one, multiple_choice exactly when it has options and essay or
\* short_answer otherwise, and the type is resolved before the answer rules:
\* the call does to the question what it does to the same question entering
\* with the resolved type.
C17_TypeResolvedFirst ==
    (pc = "fixed" /\ Before.type = None) =>
        /\ After.type \in {"multiple_choice", "essay", "short_answer"}
        /\ After.type = "multiple_choice" <=> OptionsTruthy(Before.options)
        /\ stats["type_none_fixed"] = 1
        /\ exams = fix_all(OneQuestion(exams0[1].subject,
                                       [Before EXCEPT !.type = After.type]))

\* A question with options and no type got its correct from final_answer in
\* the call that made it multiple_choice.
C17_Witness ==
    /\ pc = "fixed"
    /\ Before.type = None /\ Before.correct = None
    /\ Before.final_answer = " B "
    /\ After.type = "multiple_choice" /\ After.correct = "b"

\* The texts of a question that Fix 5 may rewrite.
TextsOf(q) == <<q.question, q.model_answer, q.scaffold_text, q.explanation, q.hints>>

\* C18: text rewriting is gated by subject: for a subject outside the
\* language set, a mathematics subject or an unrecognised one, fix_question
\* leaves question, model_answer, scaffold_text, explanation and every hint
\* as they were; for a subject of the language set `$9^{th}$` becomes `9th`;
\* no subject is in both sets.
C18_TextGatedBySubject ==
    /\ LANGUAGE_SUBJECTS \cap MATH_SUBJECTS = {}
    /\ pc = "fixed" =>
          /\ Subject \notin LANGUAGE_SUBJECTS => TextsOf(After) = TextsOf(Before)
          /\ Subject \in MATH_SUBJECTS => TextsOf(After) = TextsOf(Before)
          /\ (Subject \in LANGUAGE_SUBJECTS /\ Before.question = "Write the $9^{th}$ word.")
                => After.question = "Write the 9th word."
          /\ (Subject \in LANGUAGE_SUBJECTS
              /\ Before.hints = <<"Write the $9^{th}$ word.", NonStr>>)
                => After.hints = <<"Write the 9th word.", NonStr>>

\* A question full of LaTeX went through fix_question under a subject of
\* neither set and kept every text.
C18_Witness ==
    /\ pc = "fixed"
    /\ Subject = "latin"
    /\ Before.question = "Write the $9^{th}$ word."
    /\ Before.model_answer = "She $\\underline{went\\:home}$."
    /\ Before.hints = <<"Write the $9^{th}$ word.", NonStr>>
    /\ TextsOf(After) = TextsOf(Before)

\* fix_question treats the question as multiple_choice: that is its type, or
\* it has no type and has options.
AsMultipleChoice(q) ==
    \/ q.type = "multiple_choice"
    \/ q.type = None /\ OptionsTruthy(q.options)

\* The options whose value is the text t but for case and outer blanks, and
\* those whose value has t inside it.
ValueEquals(options, t) ==
    {n \in 1..Len(options.items) :
        IsStr(options.items[n][2])
          /\ answer_strip(lower(options.items[n][2])) = answer_strip(lower(t))}

ValueContains(options, t) ==
    {n \in 1..Len(options.items) :
        IsStr(options.items[n][2])
          /\ contains(answer_strip(lower(t)), answer_strip(lower(options.items[n][2])))}

\* The key of the first option whose value equals t and, when there is
\* none, of the first option whose value contains t; None when no option
\* does, or the options are not a map.
KeyByValue(options, t) ==
    IF options.kind # "dict" THEN None
    ELSE IF ValueEquals(options, t) # {}
    THEN options.items[Min(ValueEquals(options, t))][1]
    ELSE IF ValueContains(options, t) # {}
    THEN options.items[Min(ValueContains(options, t))][1]
    ELSE None

\* The three strategies on an answer text t: a bare letter a..f, a letter
\* a..f followed by a separator, a value of the options.
KeyByStrategies(options, t) ==
    LET t_lower == answer_strip(lower(t))
    IN  IF t_lower = "" THEN None
        ELSE IF t_lower \in OPTION_LETTERS THEN t_lower
        ELSE IF leading_letter(t_lower) # None THEN leading_letter(t_lower)
        ELSE KeyByValue(options, t)

\* The final_answer as fix_question reads it.
FinalAnswer(q) == answer_strip(OrEmpty(q.final_answer))

\* C23: a multiple_choice question with no correct and a final_answer that
\* is neither a bare letter nor a letter and a separator gets as correct the
\* key of the first option whose value equals final_answer but for case and,
\* when no value equals it, the key of the first option whose value
\* contains it.
C23_FinalAnswerByValue ==
    (/\ pc = "fixed"
     /\ AsMultipleChoice(Before)
     /\ ~Truthy(Before.correct)
     /\ Before.options.kind = "dict"
     /\ FinalAnswer(Before) # ""
     /\ lower(FinalAnswer(Before)) \notin OPTION_LETTERS
     /\ leading_letter(lower(FinalAnswer(Before))) = None
     /\ KeyByValue(Before.options, FinalAnswer(Before)) # None)
        => After.correct = KeyByValue(Before.options, FinalAnswer(Before))

\* C24: a multiple_choice question that the final_answer rules leave without
\* a correct gets the one the same three strategies give on the answer of
\* the first answer_parts entry whose label is a correct-option synonym.
C24_AnswerPartsByStrategies ==
    (/\ pc = "fixed"
     /\ AsMultipleChoice(Before)
     /\ ~Truthy(Before.correct)
     /\ KeyByStrategies(Before.options, FinalAnswer(Before)) = None
     /\ Truthy(extract_correct_from_answer_parts(Before.answer_parts))
     /\ KeyByStrategies(Before.options,
                        extract_correct_from_answer_parts(Before.answer_parts)) # None)
        => After.correct =
             KeyByStrategies(Before.options,
                             extract_correct_from_answer_parts(Before.answer_parts))

\* C25: fix_mcq_correct_key leaves a correct that is a key alone; otherwise
\* it takes the key of the first option, in map order, whose value equals
\* correct, even when an earlier option contains correct; only when no value
\* equals correct does it take the key of the first option whose value
\* contains it.
C25_ExactBeforeSubstring ==
    (/\ pc = "keyed"
     /\ Truthy(Before.correct)
     /\ Before.options.kind = "dict")
        => /\ After.options = Before.options
           /\ After.correct =
                IF IsKey(Before.correct, Before.options) THEN Before.correct
                ELSE IF KeyByValue(Before.options, Before.correct) # None
                THEN KeyByValue(Before.options, Before.correct)
                ELSE Before.correct
           /\ ValueEquals(Before.options, Before.correct) # {} /\ ~IsKey(Before.correct, Before.options)
                 => After.correct =
                      Before.options.items[Min(ValueEquals(Before.options, Before.correct))][1]

\* The first option contains the correct text, the second equals it: the
\* second option's key is taken.
C25_Witness ==
    /\ pc = "keyed"
    /\ Before.correct = "rome"
    /\ Before.options.items = <<<<"a", "b) Rome">>, <<"b", "Rome">>>>
    /\ 1 \in ValueContains(Before.options, Before.correct)
    /\ ValueEquals(Before.options, Before.correct) = {2}
    /\ After.correct = "b"

\* An answer text that says something: not empty and, but for case, none of
\* the sentinels.
Usable(t) == t # "" /\ lower(t) \notin SKIP_VALUES

UsableParts(answer_parts) ==
    {n \in 1..Len(answer_parts) : Usable(answer_strip(OrEmpty(answer_parts[n].answer)))}

\* C26: a fill_blank question with no correct gets its final_answer when
\* that is neither empty nor a sentinel; otherwise the answer of the first
\* answer_parts entry that is neither; otherwise it stays without one.
C26_FillBlankRule ==
    (pc = "fixed" /\ Before.type = "fill_blank" /\ ~Truthy(Before.correct)) =>
        After.correct =
            IF Usable(FinalAnswer(Before)) THEN FinalAnswer(Before)
            ELSE IF UsableParts(Before.answer_parts) # {}
            THEN answer_strip(
                    Before.answer_parts[Min(UsableParts(Before.answer_parts))].answer)
            ELSE Before.correct

\* The final_answer is a sentinel and so is the first answer: the second
\* answer is taken.
C26_Witness ==
    /\ pc = "fixed"
    /\ Before.type = "fill_blank"
    /\ Before.correct = None
    /\ Before.final_answer = "N/A"
    /\ Len(Before.answer_parts) = 2
    /\ Before.answer_parts[1].answer = "N/A"
    /\ After.correct = "Rome"

\* C27: a true_false question with no correct gets it from final_answer
\* alone: the final_answer itself, lower-cased, when it is one of vrai, faux,
\* true, false, v, f; else vrai when it contains vrai; else faux when it
\* contains faux; else it stays without one, whatever answer_parts holds.
C27_TrueFalseRule ==
    (pc = "fixed" /\ Before.type = "true_false" /\ ~Truthy(Before.correct)) =>
        LET fa_lower == lower(FinalAnswer(Before))
        IN  /\ After.correct =
                 IF fa_lower \in TRUE_FALSE_WORDS THEN fa_lower
                 ELSE IF contains("vrai", fa_lower) /\ fa_lower # "" THEN "vrai"
                 ELSE IF contains("faux", fa_lower) /\ fa_lower # "" THEN "faux"
                 ELSE Before.correct
            /\ Truthy(After.correct) => After.correct \in TRUE_FALSE_WORDS

\* The final_answer holds both words and is neither: vrai is taken, with a
\* usable answer in answer_parts left aside.
C27_Witness ==
    /\ pc = "fixed"
    /\ Before.type = "true_false"
    /\ Before.correct = None
    /\ Before.final_answer = "Vrai ou faux"
    /\ UsableParts(Before.answer_parts) # {}
    /\ After.correct = "vrai"

(***************************************************************************)
(* The three entry points that keep a backup, any one of them run.         *)
(***************************************************************************)
InitBackups == InitStructure \/ InitFormat \/ InitFixAll

NextBackups == NextStructure \/ NextFormat \/ NextFixAll

SpecBackups == InitBackups /\ [][NextBackups]_vars

\* C10: in each of the three entry points the backup is written before the
\* first write to the corpus file, the snapshots of pass 2 included, and it
\* holds the corpus the run started from.
C10_BackupBeforeFirstWrite ==
    writes > 0 => (backup_file.exists /\ backup_file.doc = exams0)

\* format_exam_text wrote a snapshot, with instructions already rewritten in
\* memory, over a corpus it had backed up.
C10_Witness ==
    /\ script = "format_exam_text"
    /\ pc = "dump"
    /\ writes = 1
    /\ exams # exams0
    /\ backup_file = copy2(exams0)

====
